---- MODULE Spec2Model ----
(***************************************************************************)
(* Model of the insider-message-service delivery scheduler, its delivery   *)
(* engine and the message store.                                           *)
(*                                                                         *)
(*   internal/scheduler/scheduler.go     Scheduler (Start, Stop, run, ...)  *)
(*   internal/service                    MessageService (deliverMessage)    *)
(*   internal/repository/message_repository.go   the store's statements     *)
(*   handlers                            the message and health endpoints   *)
(*                                                                         *)
(* Goroutines are modelled as processes with a program counter: the loop   *)
(* goroutines launched by Start ("loops") and the request-handling tasks   *)
(* that call the scheduler ("callers").  A step is one critical section or *)
(* one blocking call of the source.  Channels are numbered: the k-th       *)
(* successful Start makes stop channel k and done channel k.               *)
(***************************************************************************)
EXTENDS Integers, Sequences, FiniteSets, TLC

\* ------------------------------------------------------------- bounds
MaxStarts == 2
MaxMsgs == 1
MaxRuns == 2

\* bounds of the one-client specification SeqSpec
SeqMsgs == 2
SeqRuns == 2

\* bounds of the request-handler specification OpsSpec
OpsMsgs == 2
OpsRuns == 2

\* bounds of the batch specification BatchSpec: more rows than a batch holds
BatchMsgs == 3
BatchRuns == 2
\* The passes and the largest batch of the lock specification.
LockRuns == 2
LockBatch == 1
\* The table of the endless specification, more rows than a batch holds,
\* and the value its clock and counters stop at.
LiveMsgs == 3
LiveRuns == 1
\* The table and the passes of the streak specification.
StreakMsgs == 1
StreakRuns == 3
\* The table and the passes of the status specification.
StatusMsgs == 1
StatusRuns == 2

\* bounds of the content-policy specification ContentSpec: the longest
\* content, in characters, and the largest configured maximum length
MaxChars == 4
MaxLength == 5

\* ------------------------------------------------- program constants
BatchSize == 2
DefaultIntervalMinutes == 120
ConfigIntervalMinutes == 2

Callers == {"c1", "c2"}
LoopIds == 1..MaxStarts
MsgIds == 1..MaxMsgs

\* The parameter sets a caller of StartWithParams may pass:
\* (intervalMinutes, failureRate in percent, alertWebhook, alertThreshold).
ParamChoices ==
    { [intervalMinutes |-> 1, failureRate |-> 0, alertWebhook |-> "", alertThreshold |-> 0],
      [intervalMinutes |-> 0, failureRate |-> 100, alertWebhook |-> "hook", alertThreshold |-> 1] }

\* The parameter sets of the one-client specification: the above and a
\* threshold that takes two all-failed passes to reach.
SeqParamChoices ==
    ParamChoices \cup
    { [intervalMinutes |-> 1, failureRate |-> 0, alertWebhook |-> "hook", alertThreshold |-> 2] }

VARIABLES
    \* Scheduler fields (scheduler.go 24-45)
    running, stopChan, doneChan,
    interval, failureRate, alertWebhook, alertThreshold,
    lastRunAt, lastAlertSentAt, messagesSent, runsCount,
    consecutiveAllFailCount,
    \* channels: the stop / done channels that have been closed
    closedStop, closedDone,
    \* goroutines
    loops, callers, alerts,
    \* the external cancellation signal (ctx.Done())
    ctxDone,
    \* the messages table, the Redis client (or "nil") and its cache
    msgs, redisClient, cache,
    \* history: transport hand-offs of a message since its creation or
    \* its most recent replay
    sends,
    \* "none", or the panic that ended the process: no goroutine takes a
    \* step after it
    panicked,
    \* the number of passes explored (fixed by Init)
    passLimit,
    \* deliverMessage's content policy: msg.Content and
    \* config.MaxContentLength, and the content handed to the transport
    content, maxContentLength, wire,
    \* the reply to the most recent request served by a handler (replay,
    \* cached messages, health, scheduler status)
    reply,
    \* history: the mark-sent updates the store has confirmed
    marked,
    \* whether passes go on without end, the counters stopping at passLimit
    \* (fixed by Init)
    endless,
    \* the scheduler's mutex s.mu (its writer and its readers) and, for the
    \* specification that follows every Lock and Unlock, where each task is
    mu, tasks

schedVars == <<running, stopChan, doneChan, interval, failureRate, alertWebhook,
               alertThreshold, lastRunAt, lastAlertSentAt, messagesSent, runsCount,
               consecutiveAllFailCount>>
paramVars == <<interval, failureRate, alertWebhook, alertThreshold>>
counterVars == <<lastRunAt, messagesSent, runsCount, consecutiveAllFailCount>>
chanVars == <<closedStop, closedDone>>
storeVars == <<msgs, redisClient, cache, sends>>
policyVars == <<content, maxContentLength, wire>>
fixedVars == <<passLimit, endless>>
lockVars == <<mu, tasks>>
vars == <<running, stopChan, doneChan, interval, failureRate, alertWebhook,
          alertThreshold, lastRunAt, lastAlertSentAt, messagesSent, runsCount,
          consecutiveAllFailCount, closedStop, closedDone, loops, callers, alerts,
          ctxDone, msgs, redisClient, cache, sends, panicked, passLimit,
          content, maxContentLength, wire, reply, marked, endless, mu, tasks>>

\* ------------------------------------------------------------ helpers
NoLoop ==
    [pc |-> "none", done |-> 0, sel |-> 0, first |-> TRUE, run |-> 0,
     fr |-> 0, wh |-> "", th |-> 0,
     batch |-> <<>>, results |-> <<>>, op |-> "none", mid |-> 0, code |-> 0]

IdleCaller == [pc |-> "idle", sc |-> 0, dc |-> 0]

NoMessage == [status |-> "none", messageID |-> 0, sentAt |-> 0]

\* sync.RWMutex, unlocked; the tasks that take it, and a task that is in
\* none of the functions that take it.
FreeMutex == [w |-> "none", r |-> {}]
Tasks == {"loop", "alert", "client", "status"}
IdleTask == [pc |-> "idle", results |-> <<>>, run |-> 0, th |-> 0, wh |-> ""]

\* The zero SchedulerStatus: NextRunAt stays the zero time unless set.
NoStatus ==
    [Running |-> FALSE, LastRunAt |-> 0, NextRunAt |-> [set |-> FALSE, at |-> 0],
     MessagesSent |-> 0, RunsCount |-> 0, Interval |-> 0,
     ConsecutiveAllFailCount |-> 0, LastAlertSentAt |-> 0]

\* No request has been served yet.
NoReply ==
    [op |-> "none", id |-> 0, err |-> "", count |-> 0, data |-> FALSE,
     status |-> "", database |-> "", redis |-> "", snap |-> NoStatus]

SetLoop(g, r) == loops' = [loops EXCEPT ![g] = r]
SetCaller(c, r) == callers' = [callers EXCEPT ![c] = r]

\* A loop goroutine exists and has not returned from run.
Alive(g) == loops[g].pc \notin {"none", "exited"}
\* A loop goroutine is inside processMessages.
InPass(g) == loops[g].pc \in {"fetch", "send", "mark", "aggregate"}

\* The number of loops launched so far.
Launched == Cardinality({g \in LoopIds : loops[g].pc # "none"})

\* ------------------------------------------------------------ Init
\* NewScheduler (scheduler.go 47-53), an empty messages table of the given
\* capacity and the Redis client main was able to make ("nil" when Redis is
\* not available).
InitFor(sendInterval, client, rows, passes, forever) ==
    /\ running = FALSE
    /\ stopChan = 0
    /\ doneChan = 0
    /\ interval = sendInterval
    /\ failureRate = 0
    /\ alertWebhook = ""
    /\ alertThreshold = 0
    /\ lastRunAt = 0
    /\ lastAlertSentAt = 0
    /\ messagesSent = 0
    /\ runsCount = 0
    /\ consecutiveAllFailCount = 0
    /\ closedStop = {}
    /\ closedDone = {}
    /\ loops = [g \in LoopIds |-> NoLoop]
    /\ callers = [c \in Callers |-> IdleCaller]
    /\ alerts = {}
    /\ ctxDone = FALSE
    /\ msgs = [i \in 1..rows |-> NoMessage]
    /\ redisClient = client
    /\ cache = [i \in 1..rows |-> 0]
    /\ sends = [i \in 1..rows |-> 0]
    /\ panicked = "none"
    /\ passLimit = passes
    /\ reply = NoReply
    /\ marked = 0
    /\ endless = forever
    /\ mu = FreeMutex
    /\ tasks = [t \in Tasks |-> IdleTask]

\* The program observed for passLimit passes.
InitAt(sendInterval, client, rows, passes) ==
    InitFor(sendInterval, client, rows, passes, FALSE)

\* The same with the default send interval of the configuration.
InitWith(client, rows, passes) == InitAt(ConfigIntervalMinutes, client, rows, passes)

\* No delivery with a content in view.
NoContent ==
    /\ content = <<>>
    /\ maxContentLength = 0
    /\ wire = [sent |-> FALSE, content |-> <<>>]

Init == InitWith("client", MaxMsgs, MaxRuns) /\ NoContent

\* ===================================================== the scheduler
\* Scheduler.IsRunning (read under the lock).
IsRunning == running

\* The passes that are owed to loops already launched or woken: every one
\* of them increments runsCount, which the model caps at passLimit.
OwedPasses == Cardinality({g \in LoopIds : loops[g].pc = "spawned"})
RunBudget == endless \/ runsCount + OwedPasses < passLimit

\* n++ for the pass clock, the run counter, the streak and the hand-off
\* count.  When the passes go on without end these stop at passLimit, which
\* no decision of the program looks beyond.
Bump(n) == IF endless /\ n >= passLimit THEN n ELSE n + 1

\* StartWithParams starting the statistics afresh.
StartWithParams_ResetsCounters(c, p) ==
    /\ panicked = "none"
    /\ UNCHANGED <<fixedVars, lockVars, marked, policyVars, reply>>
    /\ callers[c].pc = "idle"
    /\ interval' = (IF p.intervalMinutes <= 0 THEN DefaultIntervalMinutes
                    ELSE p.intervalMinutes)
    /\ failureRate' = p.failureRate
    /\ alertWebhook' = p.alertWebhook
    /\ alertThreshold' = p.alertThreshold
    /\ consecutiveAllFailCount' = 0
    /\ messagesSent' = 0
    /\ SetCaller(c, [callers[c] EXCEPT !.pc = "start"])
    /\ UNCHANGED <<running, stopChan, doneChan, lastRunAt, lastAlertSentAt,
                   runsCount, chanVars, loops, alerts, ctxDone, storeVars, panicked>>

\* StartWithParams, its critical section: the parameters are recorded and
\* the streak is reset before Start looks at the running flag.
StartWithParams(c, p) ==
    /\ panicked = "none"
    /\ UNCHANGED <<fixedVars, lockVars, marked, policyVars, reply>>
    /\ callers[c].pc = "idle"
    /\ interval' = (IF p.intervalMinutes <= 0 THEN DefaultIntervalMinutes
                    ELSE p.intervalMinutes)
    /\ failureRate' = p.failureRate
    /\ alertWebhook' = p.alertWebhook
    /\ alertThreshold' = p.alertThreshold
    /\ consecutiveAllFailCount' = 0
    /\ SetCaller(c, [callers[c] EXCEPT !.pc = "start"])
    /\ UNCHANGED <<running, stopChan, doneChan, lastRunAt, lastAlertSentAt,
                   messagesSent, runsCount, chanVars, loops, alerts, ctxDone,
                   storeVars, panicked>>

\* Start: a no-op when running, else the flag is set, both channels are
\* made and the loop goroutine is launched (go s.run(ctx)).
Start(c) ==
    /\ panicked = "none"
    /\ UNCHANGED <<fixedVars, lockVars, marked, policyVars, reply>>
    /\ callers[c].pc \in {"idle", "start"}
    /\ IF running
       THEN /\ SetCaller(c, [callers[c] EXCEPT !.pc = "start_noop"])
            /\ UNCHANGED <<running, stopChan, doneChan, loops>>
       ELSE /\ Launched < MaxStarts
            /\ RunBudget
            /\ running' = TRUE
            /\ stopChan' = Launched + 1
            /\ doneChan' = Launched + 1
            /\ loops' = [loops EXCEPT ![Launched + 1] = [NoLoop EXCEPT !.pc = "spawned"]]
            /\ SetCaller(c, [callers[c] EXCEPT !.pc = "idle"])
    /\ UNCHANGED <<paramVars, counterVars, lastAlertSentAt, chanVars, alerts,
                   ctxDone, storeVars, panicked>>

\* Stop without its check of the running flag.
Stop_NoGuard(c) ==
    /\ panicked = "none"
    /\ UNCHANGED <<fixedVars, lockVars, marked, policyVars, reply>>
    /\ callers[c].pc = "idle"
    /\ running' = FALSE
    /\ SetCaller(c, [pc |-> "signal", sc |-> stopChan, dc |-> doneChan])
    /\ UNCHANGED <<stopChan, doneChan, paramVars, counterVars, lastAlertSentAt,
                   chanVars, loops, alerts, ctxDone, storeVars, panicked>>

\* Stop, its critical section: a no-op when not running, else the flag is
\* cleared and the two channels are copied.
Stop(c) ==
    /\ panicked = "none"
    /\ UNCHANGED <<fixedVars, lockVars, marked, policyVars, reply>>
    /\ callers[c].pc = "idle"
    /\ IF ~running
       THEN /\ SetCaller(c, [callers[c] EXCEPT !.pc = "stop_noop"])
            /\ UNCHANGED running
       ELSE /\ running' = FALSE
            /\ SetCaller(c, [pc |-> "signal", sc |-> stopChan, dc |-> doneChan])
    /\ UNCHANGED <<stopChan, doneChan, paramVars, counterVars, lastAlertSentAt,
                   chanVars, loops, alerts, ctxDone, storeVars, panicked>>

\* Stop: close(stopChan).  Closing a closed channel panics.
StopSignal(c) ==
    /\ panicked = "none"
    /\ UNCHANGED <<fixedVars, lockVars, marked, policyVars, reply>>
    /\ callers[c].pc = "signal"
    /\ IF callers[c].sc \in closedStop
       THEN /\ panicked' = "Stop: close of closed channel"
            /\ UNCHANGED <<closedStop, callers>>
       ELSE /\ closedStop' = closedStop \cup {callers[c].sc}
            /\ SetCaller(c, [callers[c] EXCEPT !.pc = "wait"])
            /\ UNCHANGED panicked
    /\ UNCHANGED <<schedVars, closedDone, loops, alerts, ctxDone, storeVars>>

\* Stop: <-doneChan, then return.
StopWait(c) ==
    /\ panicked = "none"
    /\ UNCHANGED <<fixedVars, lockVars, marked, policyVars, reply>>
    /\ callers[c].pc = "wait"
    /\ callers[c].dc \in closedDone
    /\ SetCaller(c, [callers[c] EXCEPT !.pc = "stopped"])
    /\ UNCHANGED <<schedVars, chanVars, loops, alerts, ctxDone, storeVars, panicked>>

\* A call of Start or Stop has returned to its caller.
Return(c) ==
    /\ panicked = "none"
    /\ UNCHANGED <<fixedVars, lockVars, marked, policyVars, reply>>
    /\ callers[c].pc \in {"start_noop", "stop_noop", "stopped"}
    /\ SetCaller(c, IdleCaller)
    /\ UNCHANGED <<schedVars, chanVars, loops, alerts, ctxDone, storeVars, panicked>>

\* The shutdown path cancels the context handed to every Start.
Cancel ==
    /\ panicked = "none"
    /\ UNCHANGED <<fixedVars, lockVars, marked, policyVars, reply>>
    /\ ~ctxDone
    /\ ctxDone' = TRUE
    /\ UNCHANGED <<schedVars, chanVars, loops, callers, alerts, storeVars, panicked>>

\* ---------------------------------------------------------- the loop
\* processMessages, its first critical section: the pass is counted and
\* the parameters are read.
PassBegin(l) ==
    [l EXCEPT !.pc = "fetch", !.run = Bump(runsCount), !.fr = failureRate,
              !.wh = alertWebhook, !.th = alertThreshold]

\* run making its ticker and entering its select before any pass.
RunBegin_TickerFirst(g) ==
    /\ panicked = "none"
    /\ UNCHANGED <<fixedVars, lockVars, marked, policyVars, reply>>
    /\ loops[g].pc = "spawned"
    /\ SetLoop(g, [loops[g] EXCEPT !.pc = "wait", !.done = doneChan,
                                   !.sel = stopChan, !.first = FALSE])
    /\ UNCHANGED <<schedVars, chanVars, callers, alerts, ctxDone, storeVars, panicked>>

\* run, from its first statement into the first pass: defer
\* close(s.doneChan) evaluates s.doneChan now, without the lock.
RunBegin(g) ==
    /\ panicked = "none"
    /\ UNCHANGED <<fixedVars, lockVars, marked, policyVars, reply>>
    /\ loops[g].pc = "spawned"
    /\ lastRunAt' = Bump(runsCount)
    /\ runsCount' = Bump(runsCount)
    /\ SetLoop(g, PassBegin([loops[g] EXCEPT !.done = doneChan]))
    /\ UNCHANGED <<running, stopChan, doneChan, paramVars, lastAlertSentAt,
                   messagesSent, consecutiveAllFailCount, chanVars, callers,
                   alerts, ctxDone, storeVars, panicked>>

\* case <-ticker.C: the next pass.
Tick(g) ==
    /\ panicked = "none"
    /\ UNCHANGED <<fixedVars, lockVars, marked, policyVars, reply>>
    /\ loops[g].pc = "wait"
    /\ RunBudget
    /\ lastRunAt' = Bump(runsCount)
    /\ runsCount' = Bump(runsCount)
    /\ SetLoop(g, PassBegin(loops[g]))
    /\ UNCHANGED <<running, stopChan, doneChan, paramVars, lastAlertSentAt,
                   messagesSent, consecutiveAllFailCount, chanVars, callers,
                   alerts, ctxDone, storeVars, panicked>>

\* time.NewTicker(s.interval), made after the first pass, panics on a
\* non-positive interval.
TickerPanics(l) == l.first /\ interval <= 0

\* The pass is over: the first pass makes the ticker, and the select
\* statement evaluates s.stopChan on entry, without the lock.
AfterPass(l) ==
    [l EXCEPT !.pc = "wait", !.sel = stopChan, !.first = FALSE,
              !.run = 0, !.fr = 0, !.wh = "", !.th = 0,
              !.batch = <<>>, !.results = <<>>, !.op = "none", !.mid = 0,
              !.code = 0]

EndPass(g) ==
    IF TickerPanics(loops[g])
    THEN /\ panicked' = "run: non-positive interval for NewTicker"
         /\ UNCHANGED loops
    ELSE /\ SetLoop(g, AfterPass(loops[g]))
         /\ UNCHANGED panicked

\* run returns: the deferred close(doneChan) runs.
LoopExit(g) ==
    /\ IF loops[g].done \in closedDone
       THEN /\ panicked' = "run: close of closed channel"
            /\ UNCHANGED <<closedDone, loops>>
       ELSE /\ closedDone' = closedDone \cup {loops[g].done}
            /\ SetLoop(g, [loops[g] EXCEPT !.pc = "exited"])
            /\ UNCHANGED panicked
    /\ UNCHANGED <<schedVars, closedStop, callers, alerts, ctxDone, storeVars>>

\* case <-s.stopChan
StopSeen(g) ==
    /\ panicked = "none"
    /\ UNCHANGED <<fixedVars, lockVars, marked, policyVars, reply>>
    /\ loops[g].pc = "wait"
    /\ loops[g].sel \in closedStop
    /\ LoopExit(g)

\* case <-ctx.Done()
CtxSeen(g) ==
    /\ panicked = "none"
    /\ UNCHANGED <<fixedVars, lockVars, marked, policyVars, reply>>
    /\ loops[g].pc = "wait"
    /\ ctxDone
    /\ LoopExit(g)

\* ======================================================== the store
\* SELECT ... WHERE status = 'pending' ORDER BY created_at ASC LIMIT ?
\* (ids are handed out in creation order).
RECURSIVE PendingFrom(_, _)
PendingFrom(m, i) ==
    IF i > Len(m) THEN <<>>
    ELSE (IF m[i].status = "pending" THEN <<i>> ELSE <<>>) \o PendingFrom(m, i + 1)

\* GetUnsent without its LIMIT.
GetUnsent_NoLimit(m, limit) == PendingFrom(m, 1)

\* GetUnsent ordered by created_at DESC.
GetUnsent_NewestFirst(m, limit) ==
    LET asc == PendingFrom(m, 1)
        all == [k \in 1..Len(asc) |-> asc[Len(asc) + 1 - k]]
    IN  SubSeq(all, 1, IF Len(all) <= limit THEN Len(all) ELSE limit)

\* The batch: the oldest Pending messages, at most limit of them.
GetUnsent(m, limit) ==
    LET all == PendingFrom(m, 1)
    IN  SubSeq(all, 1, IF Len(all) <= limit THEN Len(all) ELSE limit)

\* MarkAsSent that does not store the delivery identifier.
MarkAsSent_DropsId(m, id, messageID, sentAt) ==
    [m EXCEPT ![id] = [status |-> "sent", messageID |-> 0, sentAt |-> sentAt]]

\* UPDATE messages SET status = 'sent', message_id = ?, sent_at = ? WHERE id = ?
MarkAsSent(m, id, messageID, sentAt) ==
    [m EXCEPT ![id] = [status |-> "sent", messageID |-> messageID, sentAt |-> sentAt]]

\* UPDATE messages SET status = 'failed' WHERE id = ?
MarkAsFailed(m, id) ==
    [m EXCEPT ![id].status = "failed"]

\* UPDATE ... SET status = 'pending', message_id = NULL, sent_at = NULL
\* WHERE id = ? AND status = 'failed': the rows it changes.
ReplayRows(m, ids) == {i \in ids \cap DOMAIN m : m[i].status = "failed"}

ReplayUpdate(m, rows) ==
    [i \in DOMAIN m |-> IF i \in rows
                      THEN [status |-> "pending", messageID |-> 0, sentAt |-> 0]
                      ELSE m[i]]

\* INSERT INTO messages ... VALUES (?, ?, 'pending', ...): the next id.
Create ==
    /\ panicked = "none"
    /\ UNCHANGED <<fixedVars, lockVars, marked, policyVars, reply>>
    /\ \E i \in DOMAIN msgs :
         /\ msgs[i].status = "none"
         /\ \A j \in DOMAIN msgs : j < i => msgs[j].status # "none"
         /\ msgs' = [msgs EXCEPT ![i] = [status |-> "pending", messageID |-> 0, sentAt |-> 0]]
    /\ UNCHANGED <<schedVars, chanVars, loops, callers, alerts, ctxDone, redisClient, cache, sends, panicked>>

\* A replay that hands the rows it changed to the transport at once.
SendsAfterReplay_SendsNow(s, rows) ==
    [i \in DOMAIN s |-> IF i \in rows THEN s[i] + 1 ELSE s[i]]

\* The transport hand-offs on record after a replay statement: the
\* statement is an UPDATE and nothing else (no transport call is made), and
\* the replayed rows start a new delivery history.
SendsAfterReplay(s, rows) ==
    [i \in DOMAIN s |-> IF i \in rows THEN 0 ELSE s[i]]

\* The effect of a replay statement that changes the given rows.
ReplayStatement(rows) ==
    /\ msgs' = ReplayUpdate(msgs, rows)
    /\ sends' = SendsAfterReplay(sends, rows)
    /\ UNCHANGED <<schedVars, chanVars, loops, callers, alerts, ctxDone, redisClient, cache, panicked>>

\* MessageRepository.ReplayFailedByID, the statement alone.
ReplayFailedByID(id) ==
    /\ panicked = "none"
    /\ UNCHANGED <<fixedVars, lockVars, marked, policyVars, reply>>
    /\ ReplayStatement(ReplayRows(msgs, {id}))

\* MessageRepository.ReplayAllFailed, the statement alone.
ReplayAllFailed ==
    /\ panicked = "none"
    /\ UNCHANGED <<fixedVars, lockVars, marked, policyVars, reply>>
    /\ ReplayStatement(ReplayRows(msgs, DOMAIN msgs))

\* ReplayFailedByID that takes any row with the id, whatever its status.
ReplayOneRows_AnyStatus(m, id) == {i \in {id} \cap DOMAIN m : m[i].status # "none"}

\* The rows ReplayFailedByID changes: none when the statement fails.
ReplayOneRows(m, id) == ReplayRows(m, {id})

\* What ReplayFailedByID returns: the statement's error, the error for
\* rows == 0 ("no failed message found with id %d"), or nil.
ReplayOneError(rows, execErr) ==
    IF execErr THEN "store"
    ELSE IF rows = {} THEN "not found"
    ELSE ""

\* MessageHandler.ReplayFailedMessage -> MessageService.ReplayFailedMessage
\* -> ReplayFailedByID, with the reply the client gets; execErr is an error
\* of the statement itself (nothing is updated then).
ReplayOne(id, execErr) ==
    /\ panicked = "none"
    /\ UNCHANGED <<fixedVars, lockVars, marked, policyVars>>
    /\ LET rows == IF execErr THEN {} ELSE ReplayOneRows(msgs, id)
       IN  /\ ReplayStatement(rows)
           /\ reply' = [NoReply EXCEPT !.op = "replay-one", !.id = id,
                                       !.err = ReplayOneError(rows, execErr),
                                       !.count = Cardinality(rows)]

ReplayFailedMessage(id) == \E execErr \in BOOLEAN : ReplayOne(id, execErr)

\* ReplayAllFailed that reports the size of the table.
ReplayAllCount_AllRows(m, rows) == Len(m)

\* result.RowsAffected() of ReplayAllFailed.
ReplayAllCount(m, rows) == Cardinality(rows)

\* MessageHandler.ReplayAllFailedMessages -> MessageService
\* .ReplayAllFailedMessages -> ReplayAllFailed, with the reply.
ReplayAll(execErr) ==
    /\ panicked = "none"
    /\ UNCHANGED <<fixedVars, lockVars, marked, policyVars>>
    /\ LET rows == IF execErr THEN {} ELSE ReplayRows(msgs, DOMAIN msgs)
       IN  /\ ReplayStatement(rows)
           /\ reply' = [NoReply EXCEPT !.op = "replay-all",
                                       !.err = (IF execErr THEN "store" ELSE ""),
                                       !.count = ReplayAllCount(msgs, rows)]

ReplayAllFailedMessages == \E execErr \in BOOLEAN : ReplayAll(execErr)

\* ============================================== the delivery engine
\* rand.Float64() < failureRate, in percent: the draws are in [0, 1).
Draws == {0, 50, 99}

\* The forced failure taken when the draw is not below the rate.
ShouldFail_Inverted(draw, rate) == draw >= rate

ShouldFail(draw, rate) == draw < rate

\* The identifier the webhook answers with: a fresh one per accepted request.
WebhookId(id, n) == 10 * id + n

\* What the POST to the webhook comes back with: 0 stands for a
\* transport-level error (no response), the others are status codes.
StatusAccepted == 202
Responses == {0, 200, StatusAccepted, 500}

\* Client.SendMessage accepting every 2xx answer.
SendMessage_Any2xx(code, id, n) ==
    IF code = 0 \/ code \notin 200..299
    THEN [err |-> TRUE, MessageID |-> 0]
    ELSE [err |-> FALSE, MessageID |-> WebhookId(id, n)]

\* Client.SendMessage: an error when the request failed or the status is
\* not 202 Accepted, else the decoded response.
SendMessage(code, id, n) ==
    IF code = 0 \/ code # StatusAccepted
    THEN [err |-> TRUE, MessageID |-> 0]
    ELSE [err |-> FALSE, MessageID |-> WebhookId(id, n)]

\* processMessages without its return on `results == nil`: an empty batch
\* goes on to the aggregation.
Fetch_EmptyBatchAggregates(g) ==
    /\ panicked = "none"
    /\ UNCHANGED <<fixedVars, lockVars, marked, policyVars, reply>>
    /\ loops[g].pc = "fetch"
    /\ \E err \in BOOLEAN :
         LET batch == GetUnsent(msgs, BatchSize)
         IN  IF err
             THEN EndPass(g)
             ELSE /\ SetLoop(g, [loops[g] EXCEPT
                         !.pc = IF Len(batch) = 0 THEN "aggregate" ELSE "send",
                         !.batch = batch])
                  /\ UNCHANGED panicked
    /\ UNCHANGED <<schedVars, chanVars, callers, alerts, ctxDone, storeVars>>

\* processMessages taking a fetch error for a pass without outcomes and
\* going on to the aggregation.
FetchWith_ErrorAggregates(g, err) ==
    /\ panicked = "none"
    /\ UNCHANGED <<fixedVars, lockVars, marked, policyVars, reply>>
    /\ loops[g].pc = "fetch"
    /\ LET batch == GetUnsent(msgs, BatchSize)
       IN  IF ~err /\ Len(batch) = 0
           THEN EndPass(g)
           ELSE /\ SetLoop(g, [loops[g] EXCEPT
                       !.pc = IF err THEN "aggregate" ELSE "send",
                       !.batch = IF err THEN <<>> ELSE batch])
                /\ UNCHANGED panicked
    /\ UNCHANGED <<schedVars, chanVars, callers, alerts, ctxDone, storeVars>>

\* ProcessUnsentMessages, its batch fetch, given whether GetUnsent returns
\* an error: an error and an empty batch both end the pass; else the
\* deliveries start.
FetchWith(g, err) ==
    /\ panicked = "none"
    /\ UNCHANGED <<fixedVars, lockVars, marked, policyVars, reply>>
    /\ loops[g].pc = "fetch"
    /\ LET batch == GetUnsent(msgs, BatchSize)
       IN  IF err \/ Len(batch) = 0
           THEN EndPass(g)
           ELSE /\ SetLoop(g, [loops[g] EXCEPT !.pc = "send", !.batch = batch])
                /\ UNCHANGED panicked
    /\ UNCHANGED <<schedVars, chanVars, callers, alerts, ctxDone, storeVars>>

Fetch(g) == \E err \in BOOLEAN : FetchWith(g, err)

\* deliverMessage up to the store update: the forced failure, else the
\* transport call (webhookClient.SendMessage) and its answer.
DeliverSend(g) ==
    /\ panicked = "none"
    /\ UNCHANGED <<fixedVars, lockVars, marked, policyVars, reply>>
    /\ loops[g].pc = "send"
    /\ LET id == Head(loops[g].batch)
       IN \E draw \in Draws, code \in Responses :
            IF ShouldFail(draw, loops[g].fr)
            THEN /\ SetLoop(g, [loops[g] EXCEPT !.pc = "mark", !.op = "simulated"])
                 /\ UNCHANGED sends
            ELSE LET resp == SendMessage(code, id, Bump(sends[id]))
                 IN  /\ sends' = [sends EXCEPT ![id] = Bump(@)]
                     /\ SetLoop(g, [loops[g] EXCEPT
                            !.pc = "mark",
                            !.op = IF resp.err THEN "transport" ELSE "sent",
                            !.mid = resp.MessageID,
                            !.code = code])
    /\ UNCHANGED <<schedVars, chanVars, callers, alerts, ctxDone, msgs, redisClient, cache, panicked>>

\* deliverMessage with no MarkAsFailed on the forced-failure path.
StoreAfterDeliver_NoMarkOnForced(m, id, op, storeErr, mid, at) ==
    IF storeErr \/ op = "simulated" THEN m
    ELSE IF op = "sent" THEN MarkAsSent(m, id, mid, at)
    ELSE [m EXCEPT ![id].status = "failed"]

\* The store update deliverMessage issues: MarkAsSent after an accepted
\* request, MarkAsFailed after a forced or transport failure.  An update
\* that returns an error has changed nothing.
StoreAfterDeliver(m, id, op, storeErr, mid, at) ==
    IF storeErr THEN m
    ELSE IF op = "sent" THEN MarkAsSent(m, id, mid, at)
    ELSE MarkAsFailed(m, id)

\* deliverMessage returning the store's error when MarkAsFailed fails.
SendResultOf_StoreErrorWins(id, op, storeErr, mid) ==
    [MessageDBID |-> id,
     MessageID |-> IF op = "sent" /\ ~storeErr THEN mid ELSE 0,
     Success |-> (op = "sent" /\ ~storeErr),
     Error |-> IF storeErr THEN "store" ELSE IF op = "sent" THEN "none" ELSE op,
     op |-> op,
     storeErr |-> storeErr]

\* deliverMessage reporting success although MarkAsSent returned an error.
SendResultOf_NoDowngrade(id, op, storeErr, mid) ==
    [MessageDBID |-> id,
     MessageID |-> IF op = "sent" THEN mid ELSE 0,
     Success |-> (op = "sent"),
     Error |-> IF op = "sent" THEN "none" ELSE op,
     op |-> op,
     storeErr |-> storeErr]

\* The SendResult deliverMessage returns.  storeErr records that the store
\* update of this invocation returned an error (it is only logged on the
\* failure paths).
SendResultOf(id, op, storeErr, mid) ==
    [MessageDBID |-> id,
     MessageID |-> IF op = "sent" /\ ~storeErr THEN mid ELSE 0,
     Success |-> (op = "sent" /\ ~storeErr),
     Error |-> IF op = "sent" THEN (IF storeErr THEN "store" ELSE "none") ELSE op,
     op |-> op,
     storeErr |-> storeErr]

\* deliverMessage caching the delivery also after a transport failure.
CacheAfterDeliver_OnEveryAttempt(c, client, id, op, storeErr, cacheErr, mid) ==
    IF op # "simulated" /\ ~storeErr /\ client # "nil" /\ ~cacheErr
    THEN [c EXCEPT ![id] = IF op = "sent" THEN mid ELSE 1]
    ELSE c

\* deliverMessage caching the delivery before it looks at MarkAsSent's
\* error.
CacheAfterDeliver_IgnoresStoreErr(c, client, id, op, storeErr, cacheErr, mid) ==
    IF op = "sent" /\ client # "nil" /\ ~cacheErr
    THEN [c EXCEPT ![id] = mid]
    ELSE c

\* CacheSentMessage: only after a confirmed MarkAsSent, only with a Redis
\* client, and an error is only logged.
CacheAfterDeliver(c, client, id, op, storeErr, cacheErr, mid) ==
    IF op = "sent" /\ ~storeErr /\ client # "nil" /\ ~cacheErr
    THEN [c EXCEPT ![id] = mid]
    ELSE c

\* The confirmed mark-sent updates after this deliver's store update:
\* MarkAsSent is issued after an accepted request and is confirmed when it
\* returns no error.
MarkedAfterDeliver(n, op, storeErr) ==
    IF op = "sent" /\ ~storeErr THEN n + 1 ELSE n

\* deliverMessage from the store update to its return, given whether the
\* store update and the cache write return an error.
DeliverMarkWith(g, storeErr, cacheErr) ==
    /\ panicked = "none"
    /\ UNCHANGED <<fixedVars, lockVars, policyVars, reply>>
    /\ loops[g].pc = "mark"
    /\ LET l == loops[g]
           id == Head(l.batch)
       IN   /\ msgs' = StoreAfterDeliver(msgs, id, l.op, storeErr, l.mid, l.run)
            /\ marked' = MarkedAfterDeliver(marked, l.op, storeErr)
            /\ cache' = CacheAfterDeliver(cache, redisClient, id, l.op, storeErr, cacheErr, l.mid)
            /\ SetLoop(g, [l EXCEPT
                   !.pc = IF Len(l.batch) = 1 THEN "aggregate" ELSE "send",
                   !.batch = Tail(l.batch),
                   !.results = Append(l.results, SendResultOf(id, l.op, storeErr, l.mid)),
                   !.op = "none", !.mid = 0, !.code = 0])
    /\ UNCHANGED <<schedVars, chanVars, callers, alerts, ctxDone, redisClient, sends, panicked>>

DeliverMark(g) ==
    \E storeErr \in BOOLEAN, cacheErr \in BOOLEAN : DeliverMarkWith(g, storeErr, cacheErr)

\* ------------------------------------------- the pass's aggregation
\* The success count taken as the number of outcomes.
SuccessCount_CountsAll(rs) == Len(rs)

RECURSIVE SuccessCount(_)
SuccessCount(rs) ==
    IF rs = <<>> THEN 0
    ELSE (IF Head(rs).Success THEN 1 ELSE 0) + SuccessCount(Tail(rs))

\* The streak kept, not reset, by a pass that had a success.
StreakAfter_NoReset(streak, rs) ==
    IF SuccessCount(rs) = 0 /\ Len(rs) > 0 THEN streak + 1 ELSE streak

\* The streak after a pass with these results.
StreakAfter(streak, rs) ==
    IF SuccessCount(rs) = 0 /\ Len(rs) > 0 THEN Bump(streak) ELSE 0

\* The alert launched only once the streak is past the threshold.
AlertDue_PastThreshold(streak, rs, th, wh) ==
    /\ SuccessCount(rs) = 0 /\ Len(rs) > 0
    /\ streak + 1 > th /\ th > 0 /\ wh # ""

\* Whether the pass launches sendAlert.
AlertDue(streak, rs, th, wh) ==
    /\ SuccessCount(rs) = 0 /\ Len(rs) > 0
    /\ streak + 1 >= th /\ th > 0 /\ wh # ""

\* processMessages, its second critical section.
Aggregate(g) ==
    /\ panicked = "none"
    /\ UNCHANGED <<fixedVars, lockVars, marked, policyVars, reply>>
    /\ loops[g].pc = "aggregate"
    /\ LET l == loops[g]
       IN /\ messagesSent' = messagesSent + SuccessCount(l.results)
          /\ consecutiveAllFailCount' = StreakAfter(consecutiveAllFailCount, l.results)
          /\ alerts' = IF AlertDue(consecutiveAllFailCount, l.results, l.th, l.wh)
                       THEN alerts \cup {l.run} ELSE alerts
          /\ EndPass(g)
    /\ UNCHANGED <<running, stopChan, doneChan, paramVars, lastRunAt, lastAlertSentAt,
                   runsCount, chanVars, callers, ctxDone, storeVars>>

\* sendAlert, a goroutine of its own: the POST and, on 200 or 204, the
\* last-alert time.
AlertStatuses == {0, 200, 202, 204, 500}

\* resp.StatusCode == http.StatusOK || resp.StatusCode == http.StatusNoContent
\* (0 stands for a failed POST: no response).
AlertAcknowledged(status) == status \in {200, 204}

\* sendAlert resetting the streak once the alert is acknowledged.
SendAlertWith_ResetsStreak(r, status) ==
    /\ panicked = "none"
    /\ UNCHANGED <<fixedVars, lockVars, marked, policyVars, reply>>
    /\ r \in alerts
    /\ alerts' = alerts \ {r}
    /\ lastAlertSentAt' = IF AlertAcknowledged(status) THEN runsCount ELSE lastAlertSentAt
    /\ consecutiveAllFailCount' = IF AlertAcknowledged(status) THEN 0
                                  ELSE consecutiveAllFailCount
    /\ UNCHANGED <<running, stopChan, doneChan, paramVars, lastRunAt, messagesSent,
                   runsCount, chanVars, loops, callers, ctxDone, storeVars, panicked>>

\* sendAlert for the alert launched by pass r, given the status the
\* webhook answers with: the time is the current one (passes are the clock).
SendAlertWith(r, status) ==
    /\ panicked = "none"
    /\ UNCHANGED <<fixedVars, lockVars, marked, policyVars, reply>>
    /\ r \in alerts
    /\ alerts' = alerts \ {r}
    /\ lastAlertSentAt' = IF AlertAcknowledged(status) THEN runsCount ELSE lastAlertSentAt
    /\ UNCHANGED <<running, stopChan, doneChan, paramVars, counterVars, chanVars,
                   loops, callers, ctxDone, storeVars, panicked>>

SendAlert(r) == \E status \in AlertStatuses : SendAlertWith(r, status)

\* ================================================ request handlers
\* HealthHandler.Health, its overallStatus: "down" is assigned when the
\* database handle is nil or its ping fails, then "degraded" is assigned
\* when there is a Redis client and its ping fails.
HealthStatus(db, client, redisPingErr) ==
    LET afterDb == IF db # "up" THEN "down" ELSE "ok"
    IN  IF client # "nil" /\ redisPingErr THEN "degraded" ELSE afterDb

\* The database handle as Health finds it: nil, answering or not.
DbStates == {"nil", "up", "down"}

\* Health, its dbStatus and redisStatus.
DbStatus(db) == IF db = "up" THEN "up" ELSE "down"
RedisStatus(client, redisPingErr) ==
    IF client = "nil" THEN "disabled"
    ELSE IF redisPingErr THEN "down"
    ELSE "up"

\* GET /health: the checks are made and the status is reported.
HealthCheck(db, redisPingErr) ==
    /\ panicked = "none"
    /\ UNCHANGED <<fixedVars, lockVars, marked, policyVars>>
    /\ reply' = [NoReply EXCEPT !.op = "health",
                                !.status = HealthStatus(db, redisClient, redisPingErr),
                                !.database = DbStatus(db),
                                !.redis = RedisStatus(redisClient, redisPingErr)]
    /\ UNCHANGED <<schedVars, chanVars, loops, callers, alerts, ctxDone, storeVars, panicked>>

Health == \E db \in DbStates, redisPingErr \in BOOLEAN : HealthCheck(db, redisPingErr)

\* GetCachedMessages answering an empty map when there is no client.
CachedReply_NilIsEmpty(client, c, scanErr) ==
    IF client = "nil"
    THEN [NoReply EXCEPT !.op = "cached", !.data = TRUE]
    ELSE IF scanErr
    THEN [NoReply EXCEPT !.op = "cached", !.err = "scan"]
    ELSE [NoReply EXCEPT !.op = "cached", !.data = TRUE,
                         !.count = Cardinality({i \in DOMAIN c : c[i] # 0})]

\* MessageService.GetCachedMessages: (nil, "redis client not configured")
\* without a client, else what GetAllCachedMessages returns.
CachedReply(client, c, scanErr) ==
    IF client = "nil"
    THEN [NoReply EXCEPT !.op = "cached", !.err = "not configured"]
    ELSE IF scanErr
    THEN [NoReply EXCEPT !.op = "cached", !.err = "scan"]
    ELSE [NoReply EXCEPT !.op = "cached", !.data = TRUE,
                         !.count = Cardinality({i \in DOMAIN c : c[i] # 0})]

\* GET /api/v1/messages/cached
GetCachedMessages ==
    /\ panicked = "none"
    /\ UNCHANGED <<fixedVars, lockVars, marked, policyVars>>
    /\ \E scanErr \in BOOLEAN : reply' = CachedReply(redisClient, cache, scanErr)
    /\ UNCHANGED <<schedVars, chanVars, loops, callers, alerts, ctxDone, storeVars, panicked>>

\* GetStatus computing NextRunAt whenever the scheduler is running.
NextRunAt_WheneverRunning(isRunning, last, every) ==
    IF isRunning THEN [set |-> TRUE, at |-> last + every]
    ELSE [set |-> FALSE, at |-> 0]

\* if s.running && !s.lastRunAt.IsZero() { nextRun := s.lastRunAt.Add(s.interval) }
\* (times are pass numbers, 0 is the zero time; the interval is added in
\* the same unit).
NextRunAt(isRunning, last, every) ==
    IF isRunning /\ last # 0 THEN [set |-> TRUE, at |-> last + every]
    ELSE [set |-> FALSE, at |-> 0]

\* The SchedulerStatus that GetStatus builds from the fields.
SchedulerStatus ==
    [Running |-> running,
     LastRunAt |-> lastRunAt,
     NextRunAt |-> NextRunAt(running, lastRunAt, interval),
     MessagesSent |-> messagesSent,
     RunsCount |-> runsCount,
     Interval |-> interval,
     ConsecutiveAllFailCount |-> consecutiveAllFailCount,
     LastAlertSentAt |-> lastAlertSentAt]

\* Scheduler.GetStatus: every field read in one critical section
\* (s.mu.RLock ... defer s.mu.RUnlock).
GetStatus ==
    /\ panicked = "none"
    /\ UNCHANGED <<fixedVars, lockVars, marked, policyVars>>
    /\ reply' = [NoReply EXCEPT !.op = "status", !.snap = SchedulerStatus]
    /\ UNCHANGED <<schedVars, chanVars, loops, callers, alerts, ctxDone, storeVars, panicked>>

\* ============================================================= Next
CallerStep(c) ==
    \/ \E p \in ParamChoices : StartWithParams(c, p)
    \/ Start(c)
    \/ Stop(c)
    \/ StopSignal(c)
    \/ StopWait(c)
    \/ Return(c)

LoopStep(g) ==
    \/ RunBegin(g)
    \/ Fetch(g)
    \/ DeliverSend(g)
    \/ DeliverMark(g)
    \/ Aggregate(g)
    \/ StopSeen(g)
    \/ CtxSeen(g)

StoreStep ==
    \/ Create
    \/ \E id \in 1..(Len(msgs) + 1) : ReplayFailedByID(id)
    \/ ReplayAllFailed

Next ==
    \/ \E c \in Callers : CallerStep(c)
    \/ \E g \in LoopIds : LoopStep(g)
    \/ \E g \in LoopIds : Tick(g)
    \/ \E r \in alerts : SendAlert(r)
    \/ StoreStep
    \/ Cancel

Spec == Init /\ [][Next]_vars

\* The program run on an empty messages table, with the scheduling Go
\* gives: every goroutine that can take a step eventually takes one, and a
\* select whose stop or cancellation case is ready again and again
\* eventually takes it.
FairNext ==
    \/ \E c \in Callers : CallerStep(c)
    \/ \E g \in LoopIds : RunBegin(g) \/ Fetch(g) \/ StopSeen(g) \/ CtxSeen(g)
    \/ \E g \in LoopIds : Tick(g)
    \/ Cancel

FairSpec ==
    /\ Init
    /\ [][FairNext]_vars
    /\ \A c \in Callers : WF_vars(Start(c) \/ StopSignal(c) \/ StopWait(c) \/ Return(c))
    /\ \A g \in LoopIds : WF_vars(RunBegin(g) \/ Fetch(g) \/ Tick(g))
    /\ \A g \in LoopIds : SF_vars(StopSeen(g) \/ CtxSeen(g))

\* The program driven by one client that makes its calls one after the
\* other (each call returns before the next is made), on a table of up to
\* SeqMsgs messages and for up to SeqRuns passes, with no shutdown.
SeqInit == InitWith("client", SeqMsgs, SeqRuns) /\ NoContent

SeqNext ==
    \/ \E p \in SeqParamChoices : StartWithParams("c1", p)
    \/ Start("c1")
    \/ Stop("c1")
    \/ StopSignal("c1")
    \/ StopWait("c1")
    \/ Return("c1")
    \/ \E g \in LoopIds : RunBegin(g) \/ Fetch(g) \/ DeliverSend(g) \/ DeliverMark(g)
    \/ \E g \in LoopIds : Aggregate(g) \/ StopSeen(g) \/ Tick(g)
    \/ \E r \in alerts : SendAlert(r)
    \/ StoreStep

SeqSpec == SeqInit /\ [][SeqNext]_vars

\* The service with or without a Redis client, one scheduler started
\* once, and clients of the message and health endpoints, on a table of up
\* to OpsMsgs messages and for up to OpsRuns passes.
OpsInit ==
    /\ \E client \in {"nil", "client"} : InitWith(client, OpsMsgs, OpsRuns)
    /\ NoContent

OpsNext ==
    \/ Start("c1")
    \/ Return("c1")
    \/ \E g \in LoopIds : RunBegin(g) \/ Fetch(g) \/ DeliverSend(g) \/ DeliverMark(g)
    \/ \E g \in LoopIds : Aggregate(g) \/ Tick(g)
    \/ Create
    \/ \E id \in 1..(Len(msgs) + 1) : ReplayFailedMessage(id)
    \/ ReplayAllFailedMessages
    \/ Health
    \/ GetCachedMessages

OpsSpec == OpsInit /\ [][OpsNext]_vars

\* One scheduler started once on a table of up to BatchMsgs messages, more
\* than a batch holds, for up to BatchRuns passes; clients create and
\* replay messages at any time.
BatchInit == InitWith("client", BatchMsgs, BatchRuns) /\ NoContent

BatchNext ==
    \/ Start("c1")
    \/ Return("c1")
    \/ \E g \in LoopIds : RunBegin(g) \/ Fetch(g) \/ DeliverSend(g) \/ DeliverMark(g)
    \/ \E g \in LoopIds : Aggregate(g) \/ Tick(g)
    \/ StoreStep

BatchSpec == BatchInit /\ [][BatchNext]_vars

\* One client that starts, restarts with parameters and stops the
\* scheduler and asks for its status at any time, on a table of up to
\* StatusMsgs messages and for up to StatusRuns passes.
StatusInit == InitWith("client", StatusMsgs, StatusRuns) /\ NoContent

StatusNext ==
    \/ SeqNext
    \/ GetStatus

StatusSpec == StatusInit /\ [][StatusNext]_vars

\* ====================================================== the state lock
\* The scheduler with every s.mu.Lock and s.mu.Unlock a step of its own:
\* the loop goroutine ("loop": run and processMessages), the alert
\* goroutine ("alert": sendAlert), one client of Start, StartWithParams and
\* Stop ("client") and one client of GetStatus ("status").  The store and
\* the transport are not followed here: ProcessUnsentMessages and http.Post
\* are blocking calls that return any outcome.

\* s.mu.Lock returns when no task holds the lock; s.mu.RLock when no
\* writer holds it.
CanLock(m) == m.w = "none" /\ m.r = {}
CanRLock(m) == m.w = "none"
Locked(m, t) == [m EXCEPT !.w = t]
RLocked(m, t) == [m EXCEPT !.r = @ \cup {t}]

\* s.mu.Unlock put off until the function returns (defer s.mu.Unlock()).
Unlocked_Deferred(m, t) == m

\* s.mu.Unlock, s.mu.RUnlock
Unlocked(m, t) == [m EXCEPT !.w = "none"]
RUnlocked(m, t) == [m EXCEPT !.r = @ \ {t}]

\* Task t holds the lock, as writer or as reader.
Holds(t) == mu.w = t \/ t \in mu.r

SetTask(t, r) == tasks' = [tasks EXCEPT ![t] = r]

\* What ProcessUnsentMessages can return besides an error: nil, or the
\* outcomes of a batch of up to LockBatch messages.
ProcessOutcomes ==
    UNION { [1..k -> {[Success |-> TRUE], [Success |-> FALSE]}] : k \in 0..LockBatch }

\* The variables the lock specification leaves alone.
lockFrame == <<fixedVars, marked, policyVars, stopChan, doneChan, chanVars, loops,
               callers, ctxDone, storeVars, panicked>>

\* Start: s.mu.Lock()
StartLock ==
    /\ tasks["client"].pc \in {"idle", "start"}
    /\ CanLock(mu)
    /\ mu' = Locked(mu, "client")
    /\ SetTask("client", [tasks["client"] EXCEPT !.pc = "starting"])
    /\ UNCHANGED <<lockFrame, running, paramVars, counterVars, lastAlertSentAt, alerts, reply>>

\* Start, its critical section, and go s.run(ctx) after the unlock.
StartSection ==
    /\ tasks["client"].pc = "starting"
    /\ mu' = Unlocked(mu, "client")
    /\ running' = TRUE
    /\ tasks' = [tasks EXCEPT !["client"].pc = "idle",
                              !["loop"].pc = IF running THEN @ ELSE "first"]
    /\ UNCHANGED <<lockFrame, paramVars, counterVars, lastAlertSentAt, alerts, reply>>

\* StartWithParams: s.mu.Lock()
ParamsLock ==
    /\ tasks["client"].pc = "idle"
    /\ CanLock(mu)
    /\ mu' = Locked(mu, "client")
    /\ SetTask("client", [tasks["client"] EXCEPT !.pc = "params"])
    /\ UNCHANGED <<lockFrame, running, paramVars, counterVars, lastAlertSentAt, alerts, reply>>

\* StartWithParams, its critical section; s.Start(ctx) follows.
ParamsSection ==
    /\ tasks["client"].pc = "params"
    /\ \E p \in ParamChoices :
          /\ interval' = (IF p.intervalMinutes <= 0 THEN DefaultIntervalMinutes
                          ELSE p.intervalMinutes)
          /\ failureRate' = p.failureRate
          /\ alertWebhook' = p.alertWebhook
          /\ alertThreshold' = p.alertThreshold
    /\ consecutiveAllFailCount' = 0
    /\ mu' = Unlocked(mu, "client")
    /\ SetTask("client", [tasks["client"] EXCEPT !.pc = "start"])
    /\ UNCHANGED <<lockFrame, running, lastRunAt, messagesSent, runsCount,
                   lastAlertSentAt, alerts, reply>>

\* Stop: s.mu.Lock()
StopLock ==
    /\ tasks["client"].pc = "idle"
    /\ CanLock(mu)
    /\ mu' = Locked(mu, "client")
    /\ SetTask("client", [tasks["client"] EXCEPT !.pc = "stopping"])
    /\ UNCHANGED <<lockFrame, running, paramVars, counterVars, lastAlertSentAt, alerts, reply>>

\* Stop, its critical section; close(stopChan) and the wait on doneChan
\* follow the unlock.
StopSection ==
    /\ tasks["client"].pc = "stopping"
    /\ mu' = Unlocked(mu, "client")
    /\ running' = FALSE
    /\ SetTask("client", [tasks["client"] EXCEPT !.pc = IF running THEN "waitdone" ELSE "idle"])
    /\ UNCHANGED <<lockFrame, paramVars, counterVars, lastAlertSentAt, alerts, reply>>

\* Stop: <-doneChan returns once run has returned.
StopWaited ==
    /\ tasks["client"].pc = "waitdone"
    /\ tasks["loop"].pc = "idle"
    /\ SetTask("client", [tasks["client"] EXCEPT !.pc = "idle"])
    /\ UNCHANGED <<lockFrame, mu, running, paramVars, counterVars, lastAlertSentAt,
                   alerts, reply>>

\* run: case <-s.stopChan, after Stop closed the channel.
LoopReturn ==
    /\ tasks["loop"].pc = "select"
    /\ tasks["client"].pc = "waitdone"
    /\ SetTask("loop", IdleTask)
    /\ UNCHANGED <<lockFrame, mu, running, paramVars, counterVars, lastAlertSentAt,
                   alerts, reply>>

\* processMessages: s.mu.Lock(), in the first pass and on a tick.
ProcessLock ==
    /\ tasks["loop"].pc \in {"first", "select"}
    /\ runsCount < passLimit
    /\ CanLock(mu)
    /\ mu' = Locked(mu, "loop")
    /\ SetTask("loop", [tasks["loop"] EXCEPT !.pc = "counting"])
    /\ UNCHANGED <<lockFrame, running, paramVars, counterVars, lastAlertSentAt, alerts, reply>>

\* processMessages, its first critical section.
ProcessSection ==
    /\ tasks["loop"].pc = "counting"
    /\ lastRunAt' = runsCount + 1
    /\ runsCount' = runsCount + 1
    /\ mu' = Unlocked(mu, "loop")
    /\ SetTask("loop", [tasks["loop"] EXCEPT !.pc = "call", !.run = runsCount + 1,
                                             !.th = alertThreshold, !.wh = alertWebhook])
    /\ UNCHANGED <<lockFrame, running, paramVars, messagesSent, consecutiveAllFailCount,
                   lastAlertSentAt, alerts, reply>>

\* processMessages: s.messageService.ProcessUnsentMessages(ctx, failureRate),
\* the fetch, the deliveries and the store updates; an error or nil ends
\* the pass.
ProcessCall ==
    /\ tasks["loop"].pc = "call"
    /\ \E err \in BOOLEAN, rs \in ProcessOutcomes :
          SetTask("loop", IF err \/ rs = <<>>
                          THEN [IdleTask EXCEPT !.pc = "select"]
                          ELSE [tasks["loop"] EXCEPT !.pc = "counted", !.results = rs])
    /\ UNCHANGED <<lockFrame, mu, running, paramVars, counterVars, lastAlertSentAt,
                   alerts, reply>>

\* processMessages: s.mu.Lock() once the outcomes are counted.
AggregateLock ==
    /\ tasks["loop"].pc = "counted"
    /\ CanLock(mu)
    /\ mu' = Locked(mu, "loop")
    /\ SetTask("loop", [tasks["loop"] EXCEPT !.pc = "recording"])
    /\ UNCHANGED <<lockFrame, running, paramVars, counterVars, lastAlertSentAt, alerts, reply>>

\* processMessages, its second critical section (go s.sendAlert does not
\* block) and the return into run's select.
AggregateSection ==
    /\ tasks["loop"].pc = "recording"
    /\ LET l == tasks["loop"]
       IN /\ messagesSent' = messagesSent + SuccessCount(l.results)
          /\ consecutiveAllFailCount' = StreakAfter(consecutiveAllFailCount, l.results)
          /\ alerts' = IF AlertDue(consecutiveAllFailCount, l.results, l.th, l.wh)
                       THEN alerts \cup {l.run} ELSE alerts
    /\ mu' = Unlocked(mu, "loop")
    /\ SetTask("loop", [IdleTask EXCEPT !.pc = "select"])
    /\ UNCHANGED <<lockFrame, running, paramVars, lastRunAt, runsCount, lastAlertSentAt,
                   reply>>

\* sendAlert begins in its goroutine.
AlertBegin ==
    /\ tasks["alert"].pc = "idle"
    /\ \E r \in alerts :
          /\ alerts' = alerts \ {r}
          /\ SetTask("alert", [tasks["alert"] EXCEPT !.pc = "post", !.run = r])
    /\ UNCHANGED <<lockFrame, mu, running, paramVars, counterVars, lastAlertSentAt, reply>>

\* sendAlert: http.Post and the look at the status.
AlertPost ==
    /\ tasks["alert"].pc = "post"
    /\ \E status \in AlertStatuses :
          SetTask("alert", IF AlertAcknowledged(status)
                           THEN [tasks["alert"] EXCEPT !.pc = "acked"]
                           ELSE IdleTask)
    /\ UNCHANGED <<lockFrame, mu, running, paramVars, counterVars, lastAlertSentAt,
                   alerts, reply>>

\* sendAlert: s.mu.Lock()
AlertLock ==
    /\ tasks["alert"].pc = "acked"
    /\ CanLock(mu)
    /\ mu' = Locked(mu, "alert")
    /\ SetTask("alert", [tasks["alert"] EXCEPT !.pc = "stamping"])
    /\ UNCHANGED <<lockFrame, running, paramVars, counterVars, lastAlertSentAt, alerts, reply>>

\* sendAlert: s.lastAlertSentAt = time.Now(); s.mu.Unlock()
AlertSection ==
    /\ tasks["alert"].pc = "stamping"
    /\ lastAlertSentAt' = runsCount
    /\ mu' = Unlocked(mu, "alert")
    /\ SetTask("alert", IdleTask)
    /\ UNCHANGED <<lockFrame, running, paramVars, counterVars, alerts, reply>>

\* GetStatus: s.mu.RLock()
StatusRLock ==
    /\ tasks["status"].pc = "idle"
    /\ CanRLock(mu)
    /\ mu' = RLocked(mu, "status")
    /\ SetTask("status", [tasks["status"] EXCEPT !.pc = "reading"])
    /\ UNCHANGED <<lockFrame, running, paramVars, counterVars, lastAlertSentAt, alerts, reply>>

\* GetStatus: the fields are read and the deferred RUnlock runs.
StatusSection ==
    /\ tasks["status"].pc = "reading"
    /\ reply' = [NoReply EXCEPT !.op = "status", !.snap = SchedulerStatus]
    /\ mu' = RUnlocked(mu, "status")
    /\ SetTask("status", IdleTask)
    /\ UNCHANGED <<lockFrame, running, paramVars, counterVars, lastAlertSentAt, alerts>>

LockInit == InitWith("client", 0, LockRuns) /\ NoContent

LockNext ==
    \/ StartLock \/ StartSection
    \/ ParamsLock \/ ParamsSection
    \/ StopLock \/ StopSection \/ StopWaited
    \/ LoopReturn
    \/ ProcessLock \/ ProcessSection \/ ProcessCall
    \/ AggregateLock \/ AggregateSection
    \/ AlertBegin \/ AlertPost \/ AlertLock \/ AlertSection
    \/ StatusRLock \/ StatusSection

LockSpec == LockInit /\ [][LockNext]_vars

\* The one client again, on a table of up to StreakMsgs messages and for up
\* to StreakRuns passes: long enough for a streak of failed passes to pass
\* the largest alert threshold.
StreakInit == InitWith("client", StreakMsgs, StreakRuns) /\ NoContent

StreakSpec == StreakInit /\ [][SeqNext]_vars

\* The scheduler started once and never stopped, its passes going on
\* without end, on a table of up to LiveMsgs messages that clients create
\* and replay at any time.  The store answers every statement without an
\* error and the transport answers every request; the loop goroutine is
\* scheduled whenever it can take a step (its ticker fires, its calls return).
LiveInit == InitFor(ConfigIntervalMinutes, "client", LiveMsgs, LiveRuns, TRUE) /\ NoContent

\* deliverMessage up to the store update when the webhook answers.
DeliverAnswered(g) == DeliverSend(g) /\ loops'[g].code # 0

\* deliverMessage from the store update on when the store answers without
\* an error.
DeliverStored(g) == \E cacheErr \in BOOLEAN : DeliverMarkWith(g, FALSE, cacheErr)

LoopProgress(g) ==
    \/ RunBegin(g)
    \/ FetchWith(g, FALSE)
    \/ DeliverAnswered(g)
    \/ DeliverStored(g)
    \/ Aggregate(g)
    \/ Tick(g)

LiveNext ==
    \/ Start("c1")
    \/ Return("c1")
    \/ \E g \in LoopIds : LoopProgress(g)
    \/ StoreStep

LiveSpec ==
    /\ LiveInit
    /\ [][LiveNext]_vars
    /\ WF_vars(Start("c1"))
    /\ \A g \in LoopIds : WF_vars(LoopProgress(g))

\* The program as main builds it from any MESSAGE_SEND_INTERVAL_MINUTES:
\* GetEnvAsInt accepts every integer, so the interval handed to
\* NewScheduler is the default, zero or negative.  One client, a table of
\* up to MaxMsgs messages, up to MaxRuns passes.
SendIntervals == {-1, 0, ConfigIntervalMinutes}

IntervalInit ==
    /\ \E sendInterval \in SendIntervals : InitAt(sendInterval, "client", MaxMsgs, MaxRuns)
    /\ NoContent

IntervalSpec == IntervalInit /\ [][SeqNext]_vars

\* ================================================ the content policy
\* A Go string is a sequence of bytes holding UTF-8: "a" and "." take one
\* byte, a non-ASCII character such as "é" takes two.
Chars == {"a", "é"}
Utf8(ch) == IF ch = "é" THEN <<195, 169>> ELSE IF ch = "." THEN <<46>> ELSE <<97>>

RECURSIVE Encode(_)
Encode(text) ==
    IF text = <<>> THEN <<>> ELSE Utf8(Head(text)) \o Encode(Tail(text))

\* The characters a byte string holds; a byte that starts no complete
\* character reads as the replacement character "?".
RECURSIVE Decode(_)
Decode(bytes) ==
    IF bytes = <<>> THEN <<>>
    ELSE IF Head(bytes) = 97 THEN <<"a">> \o Decode(Tail(bytes))
    ELSE IF Head(bytes) = 46 THEN <<".">> \o Decode(Tail(bytes))
    ELSE IF Head(bytes) = 195 /\ Len(bytes) >= 2 /\ bytes[2] = 169
         THEN <<"é">> \o Decode(Tail(Tail(bytes)))
    ELSE <<"?">> \o Decode(Tail(bytes))

RECURSIVE Texts(_)
Texts(n) ==
    IF n = 0 THEN {<<>>}
    ELSE Texts(n - 1) \cup {Append(t, ch) : t \in Texts(n - 1), ch \in Chars}

\* deliverMessage, "Enforce max content length": len and the slice
\* expressions count bytes.
Ellipsis == Encode(<<".", ".", ".">>)
TruncateContent(c, max) ==
    IF Len(c) > max
    THEN IF max > Len(Ellipsis)
         THEN SubSeq(c, 1, max - Len(Ellipsis)) \o Ellipsis
         ELSE SubSeq(c, 1, max)
    ELSE c

\* deliverMessage from the content policy to the transport call: the
\* content given to webhookClient.SendMessage.
Transmit ==
    /\ panicked = "none"
    /\ ~wire.sent
    /\ wire' = [sent |-> TRUE, content |-> TruncateContent(content, maxContentLength)]
    /\ UNCHANGED <<schedVars, chanVars, loops, callers, alerts, ctxDone, storeVars,
                   panicked, fixedVars, lockVars, marked, content, maxContentLength,
                   reply>>

\* One deliverMessage for every stored content of up to MaxChars characters
\* and every configured maximum length up to MaxLength.
ContentInit ==
    /\ InitWith("client", MaxMsgs, MaxRuns)
    /\ content \in {Encode(t) : t \in Texts(MaxChars)}
    /\ maxContentLength \in 0..MaxLength
    /\ wire = [sent |-> FALSE, content |-> <<>>]

ContentNext == Transmit

ContentSpec == ContentInit /\ [][ContentNext]_vars

\* ============================================================ claims
\* The step in which loop g's deliverMessage returns, its message and its
\* result.
Delivers(g) == loops[g].pc = "mark" /\ loops'[g].pc \in {"send", "aggregate"}
DeliveredId(g) == Head(loops[g].batch)
DeliveredResult(g) == loops'[g].results[Len(loops'[g].results)]

\* The step in which caller c's Stop runs its critical section.
Stops(c) == callers[c].pc = "idle" /\ callers'[c].pc \in {"signal", "stop_noop"}

\* C1: whenever the scheduler reports running = false, no pass of a loop
\* is in progress.
C1_StoppedMeansNoPassInProgress ==
    ~IsRunning => \A g \in LoopIds : ~InPass(g)

\* C2: at most one loop goroutine is alive at any time, and two passes
\* never run concurrently.
C2_AtMostOneLoopAlive ==
    /\ Cardinality({g \in LoopIds : Alive(g)}) <= 1
    /\ Cardinality({g \in LoopIds : InPass(g)}) <= 1

\* C3: a message is Sent if and only if its delivery identifier and its
\* sent timestamp are both present.
C3_SentIffDeliveryRecorded ==
    \A i \in MsgIds :
        msgs[i].status # "none" =>
            (msgs[i].status = "sent" <=> (msgs[i].messageID # 0 /\ msgs[i].sentAt # 0))

\* C4: every status change of a message is its creation, Pending -> Sent,
\* Pending -> Failed or Failed -> Pending; a Sent message never changes.
LegalTransitions ==
    { <<"none", "pending">>, <<"pending", "sent">>, <<"pending", "failed">>,
      <<"failed", "pending">> }
C4_OnlyLifecycleTransitions ==
    [][\A i \in MsgIds :
          msgs'[i].status # msgs[i].status =>
              <<msgs[i].status, msgs'[i].status>> \in LegalTransitions]_vars

\* C5: a message is handed to the transport at most once between its
\* creation (or its most recent replay) and its next replay.
C5_NoDuplicateSend ==
    \A i \in MsgIds : sends[i] <= 1

\* C6 as stated: every deliver invocation on a Pending message moves it to
\* Sent or to Failed, on every path.
C6_ExactlyOneTransition ==
    [][\A g \in LoopIds :
          (Delivers(g) /\ msgs[DeliveredId(g)].status = "pending") =>
              msgs'[DeliveredId(g)].status \in {"sent", "failed"}]_vars

\* C6 as amended: every deliver invocation issues exactly one store update
\* for its message and changes no other message; the message becomes Sent
\* (after an accepted request) or Failed (after a forced or transport
\* failure) when that update succeeds, and is left as it was when the
\* update returns an error.
C6_OneUpdateAppliedUnlessStoreError ==
    [][\A g \in LoopIds :
          /\ (loops[g].pc = "send" /\ loops'[g].pc = "mark") => msgs' = msgs
          /\ Delivers(g) =>
                LET id == DeliveredId(g)
                    r == DeliveredResult(g)
                IN  /\ r.MessageDBID = id
                    /\ \A j \in MsgIds \ {id} : msgs'[j] = msgs[j]
                    /\ r.storeErr => msgs'[id] = msgs[id]
                    /\ ~r.storeErr =>
                          msgs'[id].status = (IF r.op = "sent" THEN "sent" ELSE "failed")]_vars

\* A deliver invocation whose store update failed has left its message
\* Pending.
C6_Witness ==
    \E g \in LoopIds :
        /\ loops[g].pc = "aggregate"
        /\ \E k \in 1..Len(loops[g].results) :
              /\ loops[g].results[k].storeErr
              /\ msgs[loops[g].results[k].MessageDBID].status = "pending"

\* C7: the outcome of a deliver invocation reports success if and only if
\* MarkAsSent was called and returned without error, and then the store
\* holds the message as Sent with the outcome's delivery identifier.
C7_SuccessIffMarkSentConfirmed ==
    [][\A g \in LoopIds :
          Delivers(g) =>
              LET id == DeliveredId(g)
                  r == DeliveredResult(g)
              IN  /\ r.Success <=> (loops[g].op = "sent" /\ msgs'[id] # msgs[id])
                  /\ r.Success <=> (r.op = "sent" /\ ~r.storeErr)
                  /\ r.Success =>
                        /\ msgs'[id].status = "sent"
                        /\ msgs'[id].messageID = r.MessageID
                        /\ r.MessageID = loops[g].mid]_vars

\* A pass holds a successful outcome and the store holds its message as
\* Sent.
C7_Witness ==
    \E g \in LoopIds :
        /\ loops[g].pc = "aggregate"
        /\ \E k \in 1..Len(loops[g].results) :
              /\ loops[g].results[k].Success
              /\ msgs[loops[g].results[k].MessageDBID].status = "sent"

\* C8: StartWithParams and Start called while the scheduler is running
\* change neither the running flag, nor the recorded parameters, nor the
\* counters, and launch no loop.
C8_StartWhileRunningIsNoop ==
    [][\A c \in Callers :
          (IsRunning /\ callers[c].pc \in {"idle", "start"}
                     /\ callers'[c].pc \in {"start", "start_noop"}) =>
              UNCHANGED <<running, paramVars, counterVars, loops>>]_vars

\* C9: Stop on a running scheduler leaves running = false; Stop on a
\* stopped scheduler changes nothing; and no Stop panics.
C9_StopTogglesAndIsSafeTwice ==
    [][/\ \A c \in Callers :
             Stops(c) =>
                 IF IsRunning
                 THEN ~IsRunning' /\ callers'[c].pc = "signal"
                 ELSE /\ callers'[c].pc = "stop_noop"
                      /\ UNCHANGED <<schedVars, chanVars, loops, alerts, ctxDone,
                                     storeVars, panicked>>
       /\ panicked' # "Stop: close of closed channel"]_vars

\* Two Stop calls at once: one has stopped the scheduler and waits for the
\* loop, the other found it stopped and returns.
C9_Witness ==
    \E c, d \in Callers :
        /\ callers[c].pc \in {"wait", "stopped"}
        /\ callers[d].pc = "stop_noop"
        /\ ~IsRunning

\* C10: every Stop that found the scheduler running eventually returns.
C10_StopEventuallyReturns ==
    \A c \in Callers : (callers[c].pc = "signal") ~> (callers[c].pc = "stopped")

\* C11: once the cancellation signal has fired and every loop has exited
\* on it (no stop was signalled, no call is in progress), the scheduler
\* reports running = false.
C11_CancelledMeansStopped ==
    ( /\ ctxDone
      /\ closedStop = {}
      /\ Launched > 0
      /\ \A g \in LoopIds : ~Alive(g)
      /\ \A c \in Callers : callers[c].pc = "idle" )
    => ~IsRunning

\* C12: the first thing a loop launched by Start does is a pass: its first
\* step counts a run (run counter + 1) and enters processMessages, and a
\* loop waits for a tick only after a pass; the first pass waits for no
\* tick.
C12_StartPerformsPassAtOnce ==
    [][\A g \in LoopIds :
          /\ (loops[g].pc = "none" /\ loops'[g].pc # "none") =>
                (loops'[g].pc = "spawned" /\ IsRunning')
          /\ (loops[g].pc = "spawned" /\ loops'[g] # loops[g]) =>
                /\ loops'[g].pc = "fetch"
                /\ loops'[g].first
                /\ runsCount' = runsCount + 1
                /\ loops'[g].run = runsCount'
          /\ (loops[g].pc # "wait" /\ loops'[g].pc = "wait") => InPass(g)]_vars

\* Start has returned and the loop it launched is in its first pass, the
\* first run counted, with no ticker made yet.
C12_Witness ==
    \E g \in LoopIds :
        /\ loops[g].pc = "fetch"
        /\ loops[g].first
        /\ runsCount = 1
        /\ \A c \in Callers : callers[c].pc = "idle"

\* The step in which loop g's pass ends: at the batch fetch (an error or an
\* empty batch) or after the aggregation.
PassEnds(g) == InPass(g) /\ loops'[g].pc = "wait"
Aggregates(g) == loops[g].pc = "aggregate" /\ loops'[g].pc = "wait"
Successes(rs) == Cardinality({k \in 1..Len(rs) : rs[k].Success})

\* C13: a pass over a non-empty batch has, when it ends, raised the run
\* count by exactly 1 (the count is the pass's own run number) and raises
\* the cumulative sent count by exactly the number of successful outcomes
\* of its batch, one outcome per message of the batch; no other step of a
\* pass changes the two counters.
C13_PassCountsRunAndSuccesses ==
    [][\A g \in LoopIds :
          /\ Aggregates(g) =>
                /\ Len(loops[g].results) > 0
                /\ runsCount' = loops[g].run
                /\ messagesSent' = messagesSent + Successes(loops[g].results)
          /\ (InPass(g) /\ loops'[g] # loops[g] /\ ~Aggregates(g)) =>
                UNCHANGED <<runsCount, messagesSent>>
          /\ (~InPass(g) /\ InPass(g)') =>
                (runsCount' = runsCount + 1 /\ messagesSent' = messagesSent)
          /\ (loops[g].pc = "fetch" /\ loops'[g].pc = "send") =>
                (loops'[g].batch # <<>> /\ loops'[g].results = <<>>)
          /\ Delivers(g) =>
                Len(loops'[g].results) + Len(loops'[g].batch)
                    = Len(loops[g].results) + Len(loops[g].batch)]_vars

\* The first pass has handled a batch of two with one success and one
\* failure: one run and one sent message are counted, the streak is 0.
C13_Witness ==
    \E g \in LoopIds :
        /\ loops[g].pc = "wait"
        /\ runsCount = 1
        /\ messagesSent = 1
        /\ consecutiveAllFailCount = 0
        /\ msgs[1].status = "sent"
        /\ msgs[2].status = "failed"

\* C14 as stated: at the end of every pass the streak counter is
\* incremented when the batch was non-empty with no success, and is reset
\* to 0 otherwise.
C14_StreakUpdatedEveryPass ==
    [][\A g \in LoopIds :
          PassEnds(g) =>
              consecutiveAllFailCount' =
                  IF Len(loops[g].results) > 0 /\ Successes(loops[g].results) = 0
                  THEN consecutiveAllFailCount + 1
                  ELSE 0]_vars

\* C14 as amended: a pass over a non-empty batch increments the streak
\* counter when no outcome succeeded and resets it to 0 when any outcome
\* succeeded; a pass that ends at its batch fetch (an empty batch, or an
\* error of the fetch) leaves the counter as it was.
C14_StreakUpdatedByNonEmptyPass ==
    [][\A g \in LoopIds :
          /\ Aggregates(g) =>
                /\ Len(loops[g].results) > 0
                /\ consecutiveAllFailCount' =
                      IF Successes(loops[g].results) = 0
                      THEN consecutiveAllFailCount + 1
                      ELSE 0
          /\ (PassEnds(g) /\ ~Aggregates(g)) =>
                /\ loops[g].pc = "fetch"
                /\ consecutiveAllFailCount' = consecutiveAllFailCount]_vars

\* Two passes of a scheduler started with its defaults are over, one of
\* them ended at its batch fetch, the other failed its only message: the
\* streak is 1.
C14_Witness ==
    \E g \in LoopIds :
        /\ loops[g].pc = "wait"
        /\ interval = ConfigIntervalMinutes
        /\ runsCount = 2
        /\ consecutiveAllFailCount = 1
        /\ msgs[1].status = "failed"
        /\ msgs[2].status = "none"
        /\ sends[1] = 1

\* C15: a pass that reaches its streak update launches an alert if and
\* only if the counter after the update is >= the alert threshold the pass
\* read, that threshold is > 0 and the endpoint the pass read is set; it
\* then launches exactly one, for its own run number; a pass that ends at
\* its batch fetch launches none.
C15_AlertIffThresholdReached ==
    [][\A g \in LoopIds :
          /\ Aggregates(g) =>
                LET due == /\ consecutiveAllFailCount' >= loops[g].th
                           /\ loops[g].th > 0
                           /\ loops[g].wh # ""
                IN  /\ loops[g].run \notin alerts
                    /\ alerts' = IF due THEN alerts \cup {loops[g].run} ELSE alerts
          /\ (PassEnds(g) /\ ~Aggregates(g)) => alerts' = alerts]_vars

\* With threshold 2, three all-failed passes in a row: the first launched
\* no alert, the second and the third one each.
C15_Witness ==
    /\ alertThreshold = 2
    /\ consecutiveAllFailCount = 3
    /\ alerts = {2, 3}

\* The step in which loop g's deliverMessage decides on the forced failure
\* and, without one, calls the transport.
Sends(g) == loops[g].pc = "send" /\ loops'[g].pc = "mark"

\* C16: a deliver whose draw is below the failure probability never
\* invokes the transport, yields a failed outcome with the simulated
\* failure as its cause and issues mark-failed for its message (Failed
\* when that update succeeds); with probability 1.0 every deliver is such
\* a forced failure, with probability 0.0 none is.
C16_ForcedFailureSkipsTransport ==
    [][\A g \in LoopIds :
          /\ Sends(g) =>
                /\ loops[g].fr = 100 => loops'[g].op = "simulated"
                /\ loops[g].fr = 0 => loops'[g].op # "simulated"
                /\ loops'[g].op = "simulated" => sends' = sends
                /\ loops'[g].op # "simulated" =>
                      sends' = [sends EXCEPT ![DeliveredId(g)] = @ + 1]
          /\ (Delivers(g) /\ loops[g].op = "simulated") =>
                LET id == DeliveredId(g)
                    r == DeliveredResult(g)
                IN  /\ ~r.Success
                    /\ r.Error = "simulated"
                    /\ r.MessageID = 0
                    /\ sends' = sends
                    /\ cache' = cache
                    /\ msgs' = IF r.storeErr THEN msgs
                               ELSE [msgs EXCEPT ![id].status = "failed"]]_vars

\* A pass run with failure probability 1.0 holds a failed outcome for a
\* message that is now Failed and was never handed to the transport.
C16_Witness ==
    \E g \in LoopIds :
        /\ loops[g].pc = "aggregate"
        /\ loops[g].fr = 100
        /\ \E k \in 1..Len(loops[g].results) :
              LET r == loops[g].results[k]
              IN  /\ r.op = "simulated" /\ ~r.Success /\ ~r.storeErr
                  /\ msgs[r.MessageDBID].status = "failed"
                  /\ sends[r.MessageDBID] = 0

\* C17: a deliver with failure probability 0.0 whose transport call
\* succeeds issues mark-sent (never mark-failed), once, for its message
\* with the identifier the transport returned; when mark-sent returns
\* without error the outcome is successful and carries that identifier.
C17_SuccessCarriesTransportId ==
    [][\A g \in LoopIds :
          /\ (Sends(g) /\ loops'[g].op = "sent") =>
                loops'[g].mid = WebhookId(DeliveredId(g), sends'[DeliveredId(g)])
          /\ (Delivers(g) /\ loops[g].fr = 0 /\ loops[g].op = "sent") =>
                LET id == DeliveredId(g)
                    r == DeliveredResult(g)
                IN  /\ r.op = "sent"
                    /\ r.MessageDBID = id
                    /\ ~r.storeErr =>
                          /\ r.Success
                          /\ r.Error = "none"
                          /\ r.MessageID = loops[g].mid
                          /\ msgs' = [msgs EXCEPT ![id] =
                                         [status |-> "sent",
                                          messageID |-> loops[g].mid,
                                          sentAt |-> loops[g].run]]
                    /\ r.storeErr => msgs' = msgs]_vars

\* A pass run with failure probability 0.0 holds a successful outcome, and
\* the store holds its message as Sent with the outcome's identifier.
C17_Witness ==
    \E g \in LoopIds :
        /\ loops[g].pc = "aggregate"
        /\ loops[g].fr = 0
        /\ \E k \in 1..Len(loops[g].results) :
              LET r == loops[g].results[k]
              IN  /\ r.Success /\ r.MessageID # 0
                  /\ msgs[r.MessageDBID].status = "sent"
                  /\ msgs[r.MessageDBID].messageID = r.MessageID

\* C18: a deliver whose transport call returns an error issues mark-failed
\* once for its message and returns success = false with the transport's
\* error as the cause; when mark-failed itself returns an error the
\* outcome is the same (the error is not propagated) and the message is
\* left as it was.
C18_TransportErrorMarksFailed ==
    [][\A g \in LoopIds :
          (Delivers(g) /\ loops[g].op = "transport") =>
              LET id == DeliveredId(g)
                  r == DeliveredResult(g)
              IN  /\ r.MessageDBID = id
                  /\ ~r.Success
                  /\ r.Error = "transport"
                  /\ r.MessageID = 0
                  /\ cache' = cache
                  /\ msgs' = IF r.storeErr THEN msgs
                             ELSE [msgs EXCEPT ![id].status = "failed"]]_vars

\* A pass holds the outcome of a transport failure whose mark-failed
\* returned an error: the cause is still the transport's.
C18_Witness ==
    \E g \in LoopIds :
        /\ loops[g].pc = "aggregate"
        /\ \E k \in 1..Len(loops[g].results) :
              LET r == loops[g].results[k]
              IN  r.op = "transport" /\ r.storeErr /\ ~r.Success /\ r.Error = "transport"

\* C19: the transport call succeeds exactly on status 202; on any other
\* status and on a transport-level error the deliver is a failure: the
\* outcome is not successful and mark-failed is issued (the message is
\* Failed when that update succeeds).
C19_OnlyAcceptedStatusSucceeds ==
    [][\A g \in LoopIds :
          /\ (Sends(g) /\ loops'[g].op # "simulated") =>
                /\ loops'[g].code \in Responses
                /\ loops'[g].op = "sent" <=> loops'[g].code = StatusAccepted
                /\ loops'[g].op = "transport" <=> loops'[g].code # StatusAccepted
          /\ (Delivers(g) /\ loops[g].op # "simulated"
                          /\ loops[g].code # StatusAccepted) =>
                LET id == DeliveredId(g)
                    r == DeliveredResult(g)
                IN  /\ ~r.Success
                    /\ r.Error = "transport"
                    /\ ~r.storeErr => msgs'[id].status = "failed"]_vars

\* The webhook has answered 200, not 202, and deliverMessage is about to
\* mark the message as failed.
C19_Witness ==
    \E g \in LoopIds :
        /\ loops[g].pc = "mark"
        /\ loops[g].code = 200
        /\ loops[g].op = "transport"

\* C20: a content of more than maxContentLength characters reaches the
\* transport with exactly maxContentLength characters, the first
\* maxContentLength - 3 original characters and "..." when
\* maxContentLength > 3, else the first maxContentLength original
\* characters; a content of at most maxContentLength characters reaches it
\* unchanged.
C20_TruncatedToMaxCharacters ==
    wire.sent =>
        LET text == Decode(content)
            out == Decode(wire.content)
            max == maxContentLength
        IN  IF Len(text) > max
            THEN /\ Len(out) = max
                 /\ out = IF max > 3
                          THEN SubSeq(text, 1, max - 3) \o <<".", ".", ".">>
                          ELSE SubSeq(text, 1, max)
            ELSE wire.content = content

\* C21: replay-one succeeds only on a message that is Failed, which becomes
\* Pending with its delivery identifier and sent timestamp cleared while
\* every other message is left alone; on an id that does not exist or whose
\* message is Pending or Sent it returns an error (the not-found error
\* whenever the statement itself ran) and no message changes.
C21_ReplayOneOnlyFailed ==
    [][\A id \in 1..(Len(msgs) + 1), execErr \in BOOLEAN :
          ReplayOne(id, execErr) =>
              LET eligible == id \in DOMAIN msgs /\ msgs[id].status = "failed"
              IN  /\ reply'.err = "" =>
                        /\ eligible
                        /\ msgs'[id] = [status |-> "pending", messageID |-> 0, sentAt |-> 0]
                        /\ \A j \in DOMAIN msgs \ {id} : msgs'[j] = msgs[j]
                  /\ (eligible /\ ~execErr) => reply'.err = ""
                  /\ ~eligible =>
                        /\ reply'.err = (IF execErr THEN "store" ELSE "not found")
                        /\ msgs' = msgs]_vars

\* A client has asked for the replay of a Sent message and got the
\* not-found error.
C21_Witness ==
    /\ reply.op = "replay-one"
    /\ reply.err = "not found"
    /\ reply.id \in DOMAIN msgs
    /\ msgs[reply.id].status = "sent"

\* C22: replay-all moves every Failed message to Pending in one step,
\* leaves every other message as it is and returns the number of messages
\* it moved; with no Failed message it returns 0, no error, and changes
\* nothing.  (When the statement itself fails, nothing changes.)
C22_ReplayAllSweepsFailed ==
    [][\A execErr \in BOOLEAN :
          ReplayAll(execErr) =>
              LET failed == {i \in DOMAIN msgs : msgs[i].status = "failed"}
              IN  /\ reply'.err = "" <=> ~execErr
                  /\ execErr => msgs' = msgs
                  /\ ~execErr =>
                        /\ \A i \in failed :
                              msgs'[i] = [status |-> "pending", messageID |-> 0, sentAt |-> 0]
                        /\ \A i \in DOMAIN msgs \ failed : msgs'[i] = msgs[i]
                        /\ reply'.count = Cardinality(failed)
                        /\ failed = {} => (reply'.count = 0 /\ msgs' = msgs)]_vars

\* A replay-all has answered 2 and both messages of the table are Pending
\* again.
C22_Witness ==
    /\ reply.op = "replay-all"
    /\ reply.err = ""
    /\ reply.count = 2
    /\ \A i \in DOMAIN msgs : msgs[i].status = "pending"

\* The step in which loop g's pass gets its batch from the store.
Fetches(g) == loops[g].pc = "fetch" /\ loops'[g].pc = "send"

\* A replay request is served (one message or all).
Replays ==
    \/ \E id \in 1..(Len(msgs) + 1) : ReplayFailedMessage(id)
    \/ ReplayAllFailedMessages

\* C23: a replay makes no transport call and touches no pass; a message is
\* handed to the transport only in a deliver of a scheduler pass, as the
\* head of the batch that pass fetched, and every message of a fetched
\* batch is Pending when it is fetched and still Pending when it is sent.
C23_ReplayNeverSends ==
    [][/\ Replays =>
             /\ \A i \in DOMAIN sends : sends'[i] <= sends[i]
             /\ loops' = loops
             /\ alerts' = alerts
       /\ \A i \in DOMAIN sends :
             sends'[i] > sends[i] =>
                 \E g \in LoopIds :
                     /\ Sends(g)
                     /\ Head(loops[g].batch) = i
                     /\ msgs[i].status = "pending"
       /\ \A g \in LoopIds :
             Fetches(g) =>
                 \A k \in 1..Len(loops'[g].batch) :
                     msgs[loops'[g].batch[k]].status = "pending"]_vars

\* The second pass has handed to the transport the message that failed in
\* the first pass and was replayed since.
C23_Witness ==
    /\ reply.op = "replay-one"
    /\ reply.err = ""
    /\ \E g \in LoopIds :
          /\ loops[g].pc = "mark"
          /\ loops[g].run = 2
          /\ loops[g].op # "simulated"
          /\ Head(loops[g].batch) = reply.id
          /\ sends[reply.id] = 1

\* C24: the health endpoint reports "ok" when the database is up and Redis
\* is up or disabled, "degraded" when the database is up and Redis is down,
\* and "down" whenever the database is down, whatever the state of Redis.
C24_HealthStatusByComponents ==
    reply.op = "health" =>
        reply.status = IF reply.database = "down" THEN "down"
                       ELSE IF reply.redis = "down" THEN "degraded"
                       ELSE "ok"

\* The step in which a pass is counted and entered (processMessages, its
\* first critical section).
PassStarts(g) == loops[g].pc \in {"spawned", "wait"} /\ loops'[g].pc = "fetch"

\* The step in which loop g's pass ends without an outcome: its batch was
\* empty (or its fetch failed).
EmptyPassEnds(g) == PassEnds(g) /\ loops[g].results = <<>> /\ loops[g].batch = <<>>

\* C25: a pass whose batch is empty changes nothing but the run counter
\* (and the time of the last run recorded with it): counting the pass
\* leaves the sent count, the streak, the alert state and the messages as
\* they are, and the end of the pass changes no scheduler field, no
\* message and no cache entry, and raises no alert.
C25_EmptyPassOnlyCountsRun ==
    [][\A g \in LoopIds :
          /\ PassStarts(g) =>
                /\ runsCount' = runsCount + 1
                /\ UNCHANGED <<messagesSent, consecutiveAllFailCount, lastAlertSentAt,
                               alerts, msgs, cache, sends>>
          /\ EmptyPassEnds(g) =>
                UNCHANGED <<schedVars, alerts, msgs, cache, sends>>]_vars

\* The second pass found nothing to send (the only message was sent by the
\* first) and has ended: two runs and one sent message are on record.
C25_Witness ==
    /\ runsCount = 2
    /\ messagesSent = 1
    /\ msgs[1].status = "sent" /\ msgs[1].sentAt = 1
    /\ msgs[2].status = "none"
    /\ lastRunAt = 2
    /\ \E g \in LoopIds : loops[g].pc = "wait"
    /\ \A g \in LoopIds : ~InPass(g) /\ loops[g].pc # "spawned"

\* The ids of a batch.
Ids(batch) == {batch[k] : k \in 1..Len(batch)}

\* C26: when the transport accepted the message but mark-sent returns an
\* error, the outcome is a failure whose cause is the store, nothing is
\* written to the cache, the message keeps its state, and the pass does not
\* send it again: it leaves the batch, which only ever loses its head, and
\* no transport call is made in that step.
C26_MarkSentFailureDowngrades ==
    [][\A g \in LoopIds :
          /\ (Delivers(g) /\ loops[g].op = "sent" /\ DeliveredResult(g).storeErr) =>
                LET id == DeliveredId(g)
                    r == DeliveredResult(g)
                IN  /\ ~r.Success
                    /\ r.Error = "store"
                    /\ r.MessageDBID = id
                    /\ cache' = cache
                    /\ msgs' = msgs
                    /\ sends' = sends
                    /\ id \notin Ids(loops'[g].batch)
          /\ (InPass(g) /\ loops'[g].pc \in {"send", "mark", "aggregate"} /\ ~Fetches(g)) =>
                \/ loops'[g].batch = loops[g].batch
                \/ loops[g].batch # <<>> /\ loops'[g].batch = Tail(loops[g].batch)
          /\ Fetches(g) =>
                Cardinality(Ids(loops'[g].batch)) = Len(loops'[g].batch)]_vars

\* A pass is about to aggregate the outcome of a message the webhook
\* accepted and mark-sent failed on: a failure, the message still Pending,
\* handed to the transport once, nothing cached.
C26_Witness ==
    \E g \in LoopIds :
        /\ loops[g].pc = "aggregate"
        /\ redisClient = "client"
        /\ \E k \in 1..Len(loops[g].results) :
              LET r == loops[g].results[k]
              IN  /\ r.op = "sent" /\ r.storeErr /\ ~r.Success
                  /\ msgs[r.MessageDBID].status = "pending"
                  /\ sends[r.MessageDBID] = 1
                  /\ cache[r.MessageDBID] = 0

\* C27: a deliver writes a cache entry only when it ended in confirmed
\* success (the transport accepted and mark-sent was confirmed), and the
\* entry is the delivery identifier under its message's id; a failed deliver
\* (forced, transport or store failure) leaves the cache as it is.  A
\* confirmed success writes the entry whenever there is a Redis client and
\* its write succeeds (the write is best-effort), and no other step of the
\* program writes to the cache.
C27_CacheWrittenIffConfirmedSuccess ==
    [][/\ \A g \in LoopIds, storeErr \in BOOLEAN, cacheErr \in BOOLEAN :
             DeliverMarkWith(g, storeErr, cacheErr) =>
                 LET id == DeliveredId(g)
                     r == DeliveredResult(g)
                     confirmed == loops[g].op = "sent" /\ ~storeErr
                 IN  /\ r.Success <=> confirmed
                     /\ ~confirmed => cache' = cache
                     /\ (confirmed /\ redisClient # "nil" /\ ~cacheErr) =>
                           /\ cache' = [cache EXCEPT ![id] = r.MessageID]
                           /\ cache'[id] = msgs'[id].messageID
                     /\ (confirmed /\ (redisClient = "nil" \/ cacheErr)) => cache' = cache
       /\ cache' # cache => \E g \in LoopIds : Delivers(g)]_vars

\* A confirmed delivery is in the cache under its message's id, with the
\* identifier the store holds.
C27_Witness ==
    \E i \in DOMAIN msgs :
        /\ msgs[i].status = "sent"
        /\ cache[i] # 0
        /\ cache[i] = msgs[i].messageID

C29_OneBoundedBatchPerPass ==
    [][\A g \in LoopIds :
          /\ Fetches(g) =>
                /\ loops[g].batch = <<>> /\ loops[g].results = <<>>
                /\ loops'[g].results = <<>>
                /\ Len(loops'[g].batch) <= BatchSize
                /\ \A k \in 1..Len(loops'[g].batch) :
                      msgs[loops'[g].batch[k]].status = "pending"
          /\ Sends(g) =>
                /\ Len(loops[g].results) < BatchSize
                /\ loops'[g].batch = loops[g].batch
          /\ Delivers(g) =>
                /\ Len(loops'[g].results) = Len(loops[g].results) + 1
                /\ Len(loops'[g].results) <= BatchSize
                /\ loops'[g].batch = Tail(loops[g].batch)
          /\ loops'[g].batch # loops[g].batch =>
                Fetches(g) \/ Delivers(g)
          /\ Aggregates(g) => Len(loops[g].results) \in 1..BatchSize]_vars

\* A pass has delivered a full batch and is about to aggregate its two
\* outcomes while a third message is Pending and has not been handed to the
\* transport.
C29_Witness ==
    \E g \in LoopIds :
        /\ loops[g].pc = "aggregate"
        /\ Len(loops[g].results) = BatchSize
        /\ \E i \in DOMAIN msgs :
              /\ msgs[i].status = "pending"
              /\ sends[i] = 0
              /\ \A k \in 1..Len(loops[g].results) : loops[g].results[k].MessageDBID # i

\* The ids of a sequence of outcomes, in order.
OutcomeIds(rs) == [k \in 1..Len(rs) |-> rs[k].MessageDBID]

\* C30: a pass delivers the messages of its batch one after the other in
\* the order the store returned them, oldest first (a Pending message left
\* out of the batch is younger than every message in it): a deliver starts
\* only when none is in progress, on the first message not yet delivered,
\* and appends that message's outcome, so that the i-th outcome belongs to
\* the i-th message of the batch.
C30_SequentialInStoreOrder ==
    [][\A g \in LoopIds :
          /\ Fetches(g) =>
                LET batch == loops'[g].batch
                IN  /\ loops'[g].results = <<>>
                    /\ \A j, k \in 1..Len(batch) : j < k => batch[j] < batch[k]
                    /\ \A i \in DOMAIN msgs :
                          (msgs[i].status = "pending" /\ i \notin Ids(batch)) =>
                              \A k \in 1..Len(batch) : batch[k] < i
          /\ Sends(g) =>
                /\ loops[g].op = "none"
                /\ loops'[g].batch = loops[g].batch
                /\ loops'[g].results = loops[g].results
          /\ Delivers(g) =>
                /\ loops[g].op # "none"
                /\ loops'[g].op = "none"
                /\ DeliveredResult(g).MessageDBID = Head(loops[g].batch)
                /\ OutcomeIds(loops'[g].results) \o loops'[g].batch
                      = OutcomeIds(loops[g].results) \o loops[g].batch
          /\ (InPass(g) /\ InPass(g)' /\ ~Fetches(g)) =>
                OutcomeIds(loops'[g].results) \o loops'[g].batch
                      = OutcomeIds(loops[g].results) \o loops[g].batch]_vars

\* The second pass has delivered its batch, messages 1 (replayed since the
\* first pass) and 3, and holds their outcomes in that order.
C30_Witness ==
    \E g \in LoopIds :
        /\ loops[g].pc = "aggregate"
        /\ loops[g].run = 2
        /\ OutcomeIds(loops[g].results) = <<1, 3>>
        /\ msgs[2].status = "sent"

\* C32: an alert is fire-and-forget.  Whatever the webhook answers, the
\* step that completes an alert changes no scheduler field but the
\* last-alert time, no loop, no channel and no message, and ends no
\* process; the pass that launches an alert ends in the very step that
\* launches it, with the alert still unanswered; and an unanswered alert
\* does not keep a waiting loop from its next tick.
C32_AlertIsFireAndForget ==
    /\ [][/\ \A r \in alerts, status \in AlertStatuses :
                SendAlertWith(r, status) =>
                    UNCHANGED <<running, stopChan, doneChan, paramVars, lastRunAt,
                                messagesSent, runsCount, consecutiveAllFailCount,
                                chanVars, loops, callers, ctxDone, storeVars, panicked>>
          /\ \A g \in LoopIds :
                (Aggregates(g) /\ alerts' # alerts) =>
                    /\ loops'[g].pc = "wait"
                    /\ alerts' = alerts \cup {loops[g].run}
                    /\ panicked' = "none"]_vars
    /\ [](\A g \in LoopIds :
             (alerts # {} /\ loops[g].pc = "wait" /\ RunBudget /\ panicked = "none")
                 => ENABLED Tick(g))

\* The alert of an earlier pass is still unanswered while the loop is in a
\* later pass.
C32_Witness ==
    \E r \in alerts, g \in LoopIds : InPass(g) /\ loops[g].run > r

\* C33: the last-alert time is recorded on every alert the webhook
\* acknowledges with a 2xx status (204 included) and is left as it is when
\* the POST fails or the status is not 2xx.
C33_AlertTimeOnEvery2xx ==
    [][\A r \in alerts, status \in AlertStatuses :
          SendAlertWith(r, status) =>
              lastAlertSentAt' = IF status \in 200..299 THEN runsCount
                                 ELSE lastAlertSentAt]_vars

\* C36: a batch fetch that returns an error ends the pass there and then:
\* the loop is back in its select, nothing has panicked, and the step
\* changes no scheduler field, no message, no cache entry and raises no
\* alert, so that the pass has changed only what the step that counted it
\* changed, the run counter and the last-run time; the waiting loop takes
\* its next tick.
C36_FetchErrorEndsPassQuietly ==
    /\ [][\A g \in LoopIds :
             /\ FetchWith(g, TRUE) =>
                   /\ loops'[g].pc = "wait"
                   /\ panicked' = "none"
                   /\ UNCHANGED <<schedVars, chanVars, alerts, msgs, cache, sends>>
             /\ PassStarts(g) =>
                   /\ runsCount' = runsCount + 1
                   /\ lastRunAt' = runsCount'
                   /\ UNCHANGED <<running, paramVars, messagesSent, consecutiveAllFailCount,
                                  lastAlertSentAt, alerts, msgs, cache, sends>>]_vars
    /\ [](\A g \in LoopIds :
             (loops[g].pc = "wait" /\ RunBudget /\ panicked = "none") => ENABLED Tick(g))

\* The first pass is over and has left the one message of the table
\* Pending and never handed to the transport, as a failed fetch does; the
\* streak it found is still on record.
C36_Witness ==
    /\ runsCount = 1 /\ lastRunAt = 1
    /\ messagesSent = 0
    /\ consecutiveAllFailCount = 0
    /\ alerts = {}
    /\ msgs[1].status = "pending" /\ sends[1] = 0
    /\ \E g \in LoopIds : loops[g].pc = "wait"
    /\ \A g \in LoopIds : ~InPass(g) /\ loops[g].pc # "spawned"

\* C37: whatever the interleaving of start, stop, cancellation and the
\* scheduling of the loops, no channel is closed twice: no scheduler
\* operation panics.
C37_NoChannelClosedTwice ==
    panicked = "none"

\* C39: the run count and the sent count never decrease, whatever the step
\* (start, stop, tick, delivery, replay, cancellation); Start and Stop leave
\* both counters and the streak as they are, and StartWithParams resets the
\* streak and nothing else of the statistics.
C39_CountersNeverDecrease ==
    [][/\ runsCount' >= runsCount
       /\ messagesSent' >= messagesSent
       \* a step of a client in StartWithParams, Start or Stop
       /\ \A c \in Callers :
             callers'[c] # callers[c] =>
                 /\ UNCHANGED <<runsCount, messagesSent, lastRunAt>>
                 /\ consecutiveAllFailCount' =
                        IF callers[c].pc = "idle" /\ callers'[c].pc = "start"
                        THEN 0 ELSE consecutiveAllFailCount
       \* a cancellation, a creation, a replay, a store update
       /\ (ctxDone' # ctxDone \/ msgs' # msgs) =>
             UNCHANGED <<runsCount, messagesSent, consecutiveAllFailCount>>]_vars

\* The scheduler was stopped and started again by StartWithParams after a
\* pass that sent a message: the second loop is there, the first has
\* returned, and the run and the sent message are still counted.
C39_Witness ==
    /\ loops[1].pc = "exited"
    /\ loops[2].pc # "none"
    /\ running
    /\ failureRate = 100
    /\ runsCount >= 1
    /\ messagesSent = 1

\* C35: a non-positive interval is defaulted, not rejected, on every start
\* path: no loop ever makes its ticker from a non-positive interval, which
\* panics.
C35_NonPositiveIntervalDefaulted ==
    panicked # "run: non-positive interval for NewTicker"

\* C38: whenever no pass is in progress, the cumulative successful-send
\* count equals the number of mark-sent store updates that the passes have
\* had confirmed since construction: every confirmed Sent transition is
\* counted once and nothing else is counted.
C38_SentCountIsConfirmedMarks ==
    (\A g \in LoopIds : ~InPass(g)) => messagesSent = marked

\* Two passes have run and ended, one of them with a confirmed mark-sent
\* update, and the count is 1.
C38_Witness ==
    /\ \A g \in LoopIds : ~InPass(g)
    /\ runsCount = 2
    /\ marked = 1
    /\ messagesSent = 1

\* C34 (as stated): a status query returns a snapshot in which the
\* next-run time is last-run time + interval whenever the scheduler is
\* running, and is absent when it is not running.
C34_NextRunWheneverRunning ==
    reply.op = "status" =>
        LET s == reply.snap
        IN  /\ s.Running => s.NextRunAt = [set |-> TRUE, at |-> s.LastRunAt + s.Interval]
            /\ ~s.Running => ~s.NextRunAt.set

\* C34 (amended): a status query returns a consistent snapshot (the
\* last-run time and the run count it shows belong to the same pass, and
\* the sent count never exceeds the confirmed mark-sent updates); its
\* next-run time is last-run time + interval when the scheduler is running
\* and has recorded a last-run time, and is absent otherwise: when it is
\* not running, and when it is running but no pass has begun yet.
C34_StatusSnapshot ==
    reply.op = "status" =>
        LET s == reply.snap
        IN  /\ s.LastRunAt = s.RunsCount
            /\ s.MessagesSent <= marked
            /\ s.ConsecutiveAllFailCount <= s.RunsCount
            /\ (s.Running /\ s.LastRunAt # 0)
                  => s.NextRunAt = [set |-> TRUE, at |-> s.LastRunAt + s.Interval]
            /\ ~(s.Running /\ s.LastRunAt # 0) => ~s.NextRunAt.set

\* A status taken while the scheduler is running after its first pass,
\* showing a next-run time.
C34_Witness ==
    /\ reply.op = "status"
    /\ reply.snap.Running
    /\ reply.snap.RunsCount = 1
    /\ reply.snap.NextRunAt = [set |-> TRUE, at |-> 1 + reply.snap.Interval]

\* C31: no task holds the scheduler's state lock while it performs a
\* blocking call (ProcessUnsentMessages with its fetch, deliveries and
\* store updates; the alert webhook POST; Stop's wait for the loop), and a
\* task that takes the lock after such a call records only counters (the
\* sent count and the streak, launching the alert) or the last-alert time.
C31_NoLockAcrossBlockingCall ==
    /\ [](\A t \in Tasks : tasks[t].pc \in {"call", "post", "waitdone"} => ~Holds(t))
    /\ [](\A t \in Tasks : Holds(t) <=>
             tasks[t].pc \in {"starting", "params", "stopping", "counting",
                              "recording", "stamping", "reading"})
    /\ [][/\ (tasks["loop"].pc = "call" /\ tasks'["loop"].pc # "call")
             => UNCHANGED <<mu, schedVars, alerts>>
          /\ (tasks["alert"].pc = "post" /\ tasks'["alert"].pc # "post")
             => UNCHANGED <<mu, schedVars, alerts>>
          /\ (tasks["loop"].pc = "recording" /\ tasks'["loop"].pc # "recording")
             => UNCHANGED <<running, paramVars, lastRunAt, runsCount, lastAlertSentAt>>
          /\ (tasks["alert"].pc = "stamping" /\ tasks'["alert"].pc # "stamping")
             => UNCHANGED <<running, paramVars, counterVars, alerts>>]_vars

\* The loop is inside ProcessUnsentMessages and the alert goroutine inside
\* http.Post while a client holds the lock in Stop.
C31_Witness ==
    /\ tasks["loop"].pc = "call"
    /\ tasks["alert"].pc = "post"
    /\ mu.w = "client"
    /\ tasks["client"].pc = "stopping"

\* C40: while the scheduler stays running, with fair ticks, a store and
\* a transport that always respond and finitely many creations, every
\* message that is Pending eventually leaves Pending, whatever failed
\* messages are replayed meanwhile.
C40_PendingEventuallyLeaves ==
    \A i \in 1..LiveMsgs :
        (running /\ msgs[i].status = "pending") ~> (msgs[i].status # "pending")

====
